---- MODULE Spec2Model ----
(***************************************************************************)
(* A model of media_sniffer.py: the traffic scanner (core_sniff_logic),    *)
(* the single sniff job (single_sniff_thread), the download job            *)
(* (download_task) and the orchestrating App (shared stop_event,           *)
(* active_downloads, data_list).                                           *)
(*                                                                         *)
(* Python strings on which the code computes (substring tests, lower(),    *)
(* startswith) are sequences of one-character strings, so that those       *)
(* tests are computed and not looked up.  Optional values are sequences    *)
(* of length 0 (None) or 1.  A dict is a sequence of <<key, value>> pairs  *)
(* with distinct keys, in insertion order.  List indices are 1-based here  *)
(* (Python's idx + 1).                                                     *)
(***************************************************************************)
EXTENDS Integers, Sequences, FiniteSets, TLC

(***************************************************************************)
(* Bounds of the model.                                                    *)
(***************************************************************************)
MaxWaitBound == 3
MaxBatch == 2
MaxHideDelay == 2
MaxJobBatch == 1

(***************************************************************************)
(* Strings.                                                                *)
(***************************************************************************)
S_m3u8 == <<".", "m", "3", "u", "8">>
S_doubleclick == <<"d", "o", "u", "b", "l", "e", "c", "l", "i", "c", "k">>
S_adsr == <<"a", "d", "s", "r">>
S_litix == <<"l", "i", "t", "i", "x">>
S_segment == <<"s", "e", "g", "m", "e", "n", "t">>
S_favicon == <<"f", "a", "v", "i", "c", "o", "n">>
S_http == <<"h", "t", "t", "p">>
S_STREAM_INF == <<"#", "E", "X", "T", "-", "X", "-", "S", "T", "R", "E", "A", "M", "-", "I", "N", "F">>
S_EXTINF == <<"#", "E", "X", "T", "I", "N", "F", ":">>
S_DownloadCancelled == <<"D", "o", "w", "n", "l", "o", "a", "d", " ", "C", "a", "n", "c", "e", "l", "l", "e", "d">>
K_UserAgent == <<"U", "s", "e", "r", "-", "A", "g", "e", "n", "t">>
K_Referer == <<"R", "e", "f", "e", "r", "e", "r">>
K_referer == <<"r", "e", "f", "e", "r", "e", "r">>
K_Origin == <<"O", "r", "i", "g", "i", "n">>
K_Cookie == <<"C", "o", "o", "k", "i", "e">>
K_Authorization == <<"A", "u", "t", "h", "o", "r", "i", "z", "a", "t", "i", "o", "n">>
K_Accept == <<"A", "c", "c", "e", "p", "t">>

None == <<>>
Some(x) == <<x>>

\* Python's `p in s` for strings.
Contains(s, p) ==
    \E k \in 0..(Len(s) - Len(p)) : SubSeq(s, k + 1, k + Len(p)) = p

\* Python's s.startswith(p).
StartsWith(s, p) ==
    /\ Len(p) <= Len(s)
    /\ SubSeq(s, 1, Len(p)) = p

UpperChars == <<"A", "B", "C", "D", "E", "F", "G", "H", "I", "J", "K", "L", "M",
                "N", "O", "P", "Q", "R", "S", "T", "U", "V", "W", "X", "Y", "Z">>
LowerChars == <<"a", "b", "c", "d", "e", "f", "g", "h", "i", "j", "k", "l", "m",
                "n", "o", "p", "q", "r", "s", "t", "u", "v", "w", "x", "y", "z">>

LowerChar(c) ==
    IF \E n \in 1..Len(UpperChars) : UpperChars[n] = c
    THEN LowerChars[CHOOSE n \in 1..Len(UpperChars) : UpperChars[n] = c]
    ELSE c

\* Python's s.lower() on ASCII text.
Lower(s) == [n \in 1..Len(s) |-> LowerChar(s[n])]

(***************************************************************************)
(* dict: a sequence of <<key, value>> pairs, keys distinct.                *)
(***************************************************************************)
HasKey(d, k) == \E n \in 1..Len(d) : d[n][1] = k

DictGet(d, k) == d[CHOOSE n \in 1..Len(d) : d[n][1] = k][2]

\* d[k] = v: an existing key keeps its place, a new key goes last.
DictPut(d, k, v) ==
    IF HasKey(d, k)
    THEN [n \in 1..Len(d) |-> IF d[n][1] = k THEN <<k, v>> ELSE d[n]]
    ELSE Append(d, <<k, v>>)

\* Equality of dicts: same keys, same values, whatever the order.
DictEq(d, e) ==
    /\ \A n \in 1..Len(d) : HasKey(e, d[n][1]) /\ DictGet(e, d[n][1]) = d[n][2]
    /\ \A n \in 1..Len(e) : HasKey(d, e[n][1])

(***************************************************************************)
(* urlparse(url).scheme and .netloc, as get_headers uses them.             *)
(***************************************************************************)
Digits == <<"0", "1", "2", "3", "4", "5", "6", "7", "8", "9">>

IsLetter(c) ==
    \E n \in 1..Len(UpperChars) : UpperChars[n] = c \/ LowerChars[n] = c

IsDigit(c) == \E n \in 1..Len(Digits) : Digits[n] = c

IsSchemeChar(c) == IsLetter(c) \/ IsDigit(c) \/ c \in {"+", "-", "."}

\* The least position of s, from `from` on, holding a character of cs; Len(s)+1 if none.
FirstOf(s, cs, from) ==
    IF \E n \in from..Len(s) : s[n] \in cs
    THEN CHOOSE n \in from..Len(s) :
            /\ s[n] \in cs
            /\ \A m \in from..(n - 1) : s[m] \notin cs
    ELSE Len(s) + 1

\* Position of the colon that ends a scheme, or 0 when the URL has no scheme.
SchemeEnd(url) ==
    LET c == FirstOf(url, {":"}, 1)
    IN  IF /\ c <= Len(url)
           /\ c > 1
           /\ IsLetter(url[1])
           /\ \A n \in 1..(c - 1) : IsSchemeChar(url[n])
        THEN c
        ELSE 0

UrlScheme(url) ==
    IF SchemeEnd(url) = 0 THEN <<>> ELSE Lower(SubSeq(url, 1, SchemeEnd(url) - 1))

UrlNetloc(url) ==
    LET rest == SubSeq(url, SchemeEnd(url) + 1, Len(url))
    IN  IF StartsWith(rest, <<"/", "/">>)
        THEN SubSeq(rest, 3, FirstOf(rest, {"/", "?", "#"}, 3) - 1)
        ELSE <<>>

\* urlparse raises ValueError on a netloc with unbalanced brackets.
UrlParseRaises(url) ==
    LET nl == UrlNetloc(url)
    IN  (Contains(nl, <<"[">>) /\ ~Contains(nl, <<"]">>))
        \/ (Contains(nl, <<"]">>) /\ ~Contains(nl, <<"[">>))

(***************************************************************************)
(* get_headers                                                             *)
(***************************************************************************)
\* Abbreviations of the two baseline values ("Mozilla/5.0 (Windows NT ..." and "*/*").
V_BaselineUA == <<"M", "o", "z">>
V_AcceptAll == <<"*", "/", "*">>

BaselineHeaders == << <<K_UserAgent, V_BaselineUA>>, <<K_Accept, V_AcceptAll>> >>

AllowList == <<K_UserAgent, K_Referer, K_Origin, K_Cookie, K_Authorization>>

\* ApplyAllowed with the keys compared as they are, not lower-cased.
ApplyAllowed_ExactCase(h, d, key) ==
    LET hits == {n \in 1..Len(d) : d[n][1] = key}
    IN  IF hits = {} THEN h
        ELSE DictPut(h, key, d[CHOOSE n \in hits : \A m \in hits : m <= n][2])

\* The inner loop for one allow-listed key: every item whose key equals it up to
\* case overwrites h[key], so the last such item in the dict's order wins.
ApplyAllowed(h, d, key) ==
    LET hits == {n \in 1..Len(d) : Lower(d[n][1]) = Lower(key)}
    IN  IF hits = {} THEN h
        ELSE DictPut(h, key, d[CHOOSE n \in hits : \A m \in hits : m <= n][2])

RECURSIVE ApplyAllowList(_, _, _)
ApplyAllowList(h, d, n) ==
    IF n > Len(AllowList) THEN h
    ELSE ApplyAllowList(ApplyAllowed(h, d, AllowList[n]), d, n + 1)

\* get_headers without the return that ends the branch of item_headers.
GetHeaders_NoEarlyReturn(item_headers, referer_url) ==
    LET h0 == IF item_headers # None /\ item_headers[1] # <<>>
              THEN ApplyAllowList(BaselineHeaders, item_headers[1], 1)
              ELSE BaselineHeaders
    IN  IF referer_url # None /\ referer_url[1] # <<>>
        THEN LET r == referer_url[1]
                 h == DictPut(h0, K_Referer, r)
             IN  IF UrlParseRaises(r) THEN h
                 ELSE DictPut(h, K_Origin, UrlScheme(r) \o <<":", "/", "/">> \o UrlNetloc(r))
        ELSE h0

\* item_headers: None or Some(dict); referer_url: None or Some(string).
GetHeaders(item_headers, referer_url) ==
    IF item_headers # None /\ item_headers[1] # <<>>
    THEN ApplyAllowList(BaselineHeaders, item_headers[1], 1)
    ELSE IF referer_url # None /\ referer_url[1] # <<>>
    THEN LET r == referer_url[1]
             h == DictPut(BaselineHeaders, K_Referer, r)
         IN  IF UrlParseRaises(r) THEN h
             ELSE DictPut(h, K_Origin, UrlScheme(r) \o <<":", "/", "/">> \o UrlNetloc(r))
    ELSE BaselineHeaders

(***************************************************************************)
(* check_is_main_video                                                     *)
(*                                                                         *)
(* The probe's answer is an input: requests.get either raises (msg) or     *)
(* gives a status and a body, here the body's lines (content.split('\n')). *)
(* A float is a kind (num, inf, ninf, nan) and, for num, its value in      *)
(* hundredths; duration fields are drawn with at most two fractional       *)
(* digits and no exponent, on which the sum below is the float sum.        *)
(***************************************************************************)
MainThresholdSeconds == 300

IsSpace(c) == c \in {" ", "\t", "\r", "\n"}

\* Python's s.strip().
Strip(s) ==
    LET keep == {n \in 1..Len(s) : ~IsSpace(s[n])}
    IN  IF keep = {} THEN <<>>
        ELSE SubSeq(s, CHOOSE n \in keep : \A m \in keep : n <= m,
                       CHOOSE n \in keep : \A m \in keep : m <= n)

DigitVal(c) == (CHOOSE n \in 1..Len(Digits) : Digits[n] = c) - 1

RECURSIVE DigitsVal(_)
DigitsVal(s) ==
    IF s = <<>> THEN 0
    ELSE 10 * DigitsVal(SubSeq(s, 1, Len(s) - 1)) + DigitVal(s[Len(s)])

AllDigits(s) == \A n \in 1..Len(s) : IsDigit(s[n])

F_num(c) == [ok |-> TRUE, kind |-> "num", centi |-> c]
F_special(k) == [ok |-> TRUE, kind |-> k, centi |-> 0]
F_bad == [ok |-> FALSE, kind |-> "num", centi |-> 0]

\* float(s) on an unsigned body: digits, digits.digits, digits. or .digits
ParseUnsigned(s) ==
    LET dot == FirstOf(s, {"."}, 1)
        ip == SubSeq(s, 1, dot - 1)
        fp == SubSeq(s, dot + 1, Len(s))
    IN  IF Lower(s) \in {<<"i", "n", "f">>, <<"i", "n", "f", "i", "n", "i", "t", "y">>}
        THEN F_special("inf")
        ELSE IF Lower(s) = <<"n", "a", "n">> THEN F_special("nan")
        ELSE IF ~(AllDigits(ip) /\ AllDigits(fp)) \/ (ip = <<>> /\ fp = <<>>) \/ Len(fp) > 2
        THEN F_bad
        ELSE F_num(100 * DigitsVal(ip)
                   + (IF Len(fp) = 1 THEN 10 * DigitsVal(fp) ELSE DigitsVal(fp)))

\* float(s): surrounding whitespace is ignored, one sign is allowed.
ParseFloat(s0) ==
    LET s == Strip(s0)
        neg == s # <<>> /\ s[1] = "-"
        body == IF s # <<>> /\ s[1] \in {"+", "-"} THEN SubSeq(s, 2, Len(s)) ELSE s
        u == ParseUnsigned(body)
    IN  IF ~u.ok \/ ~neg THEN u
        ELSE IF u.kind = "num" THEN F_num(0 - u.centi)
        ELSE IF u.kind = "inf" THEN F_special("ninf")
        ELSE u

\* line.split(':')[1].split(',')[0] of a line that starts with "#EXTINF:".
DurationPart(line) ==
    LET c1 == FirstOf(line, {":"}, 1)
        c2 == FirstOf(line, {":"}, c1 + 1)
        seg == SubSeq(line, c1 + 1, c2 - 1)
    IN  SubSeq(seg, 1, FirstOf(seg, {","}, 1) - 1)

\* total_duration += x, in IEEE arithmetic.
FloatAdd(a, b) ==
    IF a.kind = "nan" \/ b.kind = "nan" THEN F_special("nan")
    ELSE IF a.kind = "num" /\ b.kind = "num" THEN F_num(a.centi + b.centi)
    ELSE IF a.kind = "num" THEN b
    ELSE IF b.kind = "num" THEN a
    ELSE IF a.kind = b.kind THEN a
    ELSE F_special("nan")

RECURSIVE TotalDuration(_, _, _)
TotalDuration(lines, n, acc) ==
    IF n > Len(lines) THEN acc
    ELSE LET f == ParseFloat(DurationPart(lines[n]))
         IN  IF StartsWith(lines[n], S_EXTINF) /\ f.ok
             THEN TotalDuration(lines, n + 1, FloatAdd(acc, f))
             ELSE TotalDuration(lines, n + 1, acc)

Verdict(b, tag, n, msg) == [is_main |-> b, reason |-> [tag |-> tag, n |-> n, msg |-> msg]]

\* int(x) of a finite float: truncation towards zero.
IntOf(centi) == IF centi >= 0 THEN centi \div 100 ELSE 0 - ((0 - centi) \div 100)

\* Texts of the exceptions int() raises on a non-finite float.
M_IntOfInf == <<"i", "n", "f">>
M_IntOfNaN == <<"N", "a", "N">>

\* check_is_main_video with the test of the marker after the sum of the durations.
CheckIsMainVideo_DurationFirst(resp) ==
    IF resp.raises THEN Verdict(FALSE, "exc", 0, resp.msg)
    ELSE IF resp.status # 200 THEN Verdict(FALSE, "HTTP", resp.status, <<>>)
    ELSE LET total == TotalDuration(resp.body, 1, F_num(0))
         IN  IF total.kind = "nan" THEN Verdict(FALSE, "exc", 0, M_IntOfNaN)
             ELSE IF total.kind # "num" THEN Verdict(FALSE, "exc", 0, M_IntOfInf)
             ELSE IF total.centi > 100 * MainThresholdSeconds
             THEN Verdict(TRUE, "Duration", IntOf(total.centi), <<>>)
             ELSE IF \E n \in 1..Len(resp.body) : Contains(resp.body[n], S_STREAM_INF)
             THEN Verdict(TRUE, "Master Playlist", 0, <<>>)
             ELSE Verdict(FALSE, "TooShort", IntOf(total.centi), <<>>)

\* check_is_main_video with the test of the marker before the test of the status.
CheckIsMainVideo_MarkerBeforeStatus(resp) ==
    IF resp.raises THEN Verdict(FALSE, "exc", 0, resp.msg)
    ELSE IF \E n \in 1..Len(resp.body) : Contains(resp.body[n], S_STREAM_INF)
    THEN Verdict(TRUE, "Master Playlist", 0, <<>>)
    ELSE IF resp.status # 200 THEN Verdict(FALSE, "HTTP", resp.status, <<>>)
    ELSE LET total == TotalDuration(resp.body, 1, F_num(0))
         IN  IF total.kind = "nan" THEN Verdict(FALSE, "exc", 0, M_IntOfNaN)
             ELSE IF total.kind # "num" THEN Verdict(FALSE, "exc", 0, M_IntOfInf)
             ELSE IF total.centi > 100 * MainThresholdSeconds
             THEN Verdict(TRUE, "Duration", IntOf(total.centi), <<>>)
             ELSE Verdict(FALSE, "TooShort", IntOf(total.centi), <<>>)

CheckIsMainVideo(resp) ==
    IF resp.raises THEN Verdict(FALSE, "exc", 0, resp.msg)
    ELSE IF resp.status # 200 THEN Verdict(FALSE, "HTTP", resp.status, <<>>)
    ELSE IF \E n \in 1..Len(resp.body) : Contains(resp.body[n], S_STREAM_INF)
    THEN Verdict(TRUE, "Master Playlist", 0, <<>>)
    ELSE LET total == TotalDuration(resp.body, 1, F_num(0))
         IN  IF total.kind = "nan" THEN Verdict(FALSE, "exc", 0, M_IntOfNaN)
             ELSE IF total.kind # "num" THEN Verdict(FALSE, "exc", 0, M_IntOfInf)
             ELSE IF total.centi > 100 * MainThresholdSeconds
             THEN Verdict(TRUE, "Duration", IntOf(total.centi), <<>>)
             ELSE Verdict(FALSE, "TooShort", IntOf(total.centi), <<>>)

(***************************************************************************)
(* State.                                                                  *)
(***************************************************************************)
VARIABLES
    stop_event,        \* App.stop_event's flag: the Event every sniff and batch job is given
    \* core_sniff_logic: position, arguments and locals
    scanPc, max_wait, i, logs, pos, found_m3u8, captured_headers, valid_reason, scanRet,
    \* what the scan did: get_log calls, sleeps, classifier calls (count, positions
    \* of the current batch, arguments of the last one), messages logged
    nDrain, nSleep, nClassify, probed, lastProbe, logged,
    \* history: stop_event at the scan's start; every drained entry so far was an
    \* excluded .m3u8 request; some entry was drained; the iteration (1-based) of the acceptance, 0 if none;
    \* the signal was set while the job ran and nothing was accepted yet
    stopAtStart, onlyExcluded, sawEntry, acceptIter, stopPreAccept,
    \* single_sniff_thread: position ("none" when no sniff job exists), settings,
    \* argument, locals, the calls of update_callback so far, sessions launched and closed
    sniffPc, debug, hide_delay, target_url, driver, settleLeft, raw_title, sniffErr,
    sniffCalls, nLaunch, nQuit,
    \* history: what each read of driver.title gave (None when the read failed)
    titleReads,
    \* check_validity_thread and batch_repair_thread: position ("none" when no batch
    \* job exists), the (idx, item) pairs given, the place in them, the calls of
    \* update_row_callback so far; history: what was done for which place
    batchPc, items, cur, rowCalls, did,
    \* App: data_list (each item with the identity of its dict object, uid), the
    \* identities handed out so far, the state of the start and stop controls, the
    \* callbacks scheduled with root.after and not yet run, in order
    data_list, nextUid, btn_start, btn_stop, uiQueue,
    \* the sniff and batch jobs started so far (what each reads of its signal), and
    \* how many times stop_event went from unset to set
    jobs, stopSeq,
    \* App.active_downloads (title -> Event), the flag of every download Event
    \* created so far, the download jobs started so far
    active_downloads, dlEvents, dl,
    \* history: a download's signal was set by a stop aimed elsewhere
    strayCancel,
    \* a call of get_headers or check_is_main_video on its own: the arguments, and
    \* the value returned (None before the call)
    fnCall, fnRet

scanVars == <<scanPc, max_wait, i, logs, pos, found_m3u8, captured_headers, valid_reason,
              scanRet, nDrain, nSleep, nClassify, probed, lastProbe,
              stopAtStart, onlyExcluded, sawEntry, acceptIter>>

sniffVars == <<sniffPc, debug, hide_delay, target_url, driver, settleLeft, raw_title,
               sniffErr, sniffCalls, nLaunch, nQuit, titleReads>>

batchVars == <<batchPc, items, cur, rowCalls, did>>

appVars == <<data_list, nextUid, btn_start, btn_stop, uiQueue, jobs, stopSeq,
             active_downloads, dlEvents, dl, strayCancel>>

fnVars == <<fnCall, fnRet>>

\* What a scan never touches: the state of its caller.
callerVars == <<sniffVars, batchVars, appVars, fnVars>>

vars == <<stop_event, scanVars, logged, stopPreAccept, callerVars>>

(***************************************************************************)
(* Inputs of a scan: the entries driver.get_log("performance") may return  *)
(* and the answers the probe may give.                                     *)
(***************************************************************************)
M_RequestWillBeSent == "Network.requestWillBeSent"

U_main == <<"v", ".", "m", "3", "u", "8">>
U_alt == <<"w", ".", "m", "3", "u", "8">>
U_ts == <<"v", ".", "t", "s">>
U_doubleclick == <<"d", "o", "u", "b", "l", "e", "c", "l", "i", "c", "k", ".", "m", "3", "u", "8">>
U_adsr == <<"a", "d", "s", "r", ".", "m", "3", "u", "8">>
U_litix == <<"l", "i", "t", "i", "x", ".", "m", "3", "u", "8">>
U_segment == <<"s", "e", "g", "m", "e", "n", "t", ".", "m", "3", "u", "8">>
U_favicon == <<"f", "a", "v", "i", "c", "o", "n", ".", "m", "3", "u", "8">>
U_page == <<"h", "t", "t", "p", ":", "/", "/", "p">>

H_withReferer == << <<K_Referer, <<"r">>>>, <<<<"X">>, <<"x">>>> >>
H_lowerReferer == << <<K_referer, <<"q">>>> >>
H_noReferer == << <<K_Cookie, <<"c">>>> >>

Event(method, url, headers, hdrOk) ==
    [kind |-> "event", method |-> method, url |-> url, headers |-> headers,
     hdrOk |-> hdrOk, doc |-> U_page]

\* A record json.loads rejects.
MalformedEntry ==
    [kind |-> "malformed", method |-> "", url |-> <<>>, headers |-> <<>>,
     hdrOk |-> FALSE, doc |-> <<>>]

ExcludedEntries ==
    {Event(M_RequestWillBeSent, u, H_withReferer, TRUE) :
        u \in {U_doubleclick, U_adsr, U_litix, U_segment, U_favicon}}

LogEntries ==
    {MalformedEntry,
     Event("Network.responseReceived", U_main, H_withReferer, TRUE),
     Event(M_RequestWillBeSent, U_ts, H_withReferer, TRUE),
     Event(M_RequestWillBeSent, U_main, H_withReferer, TRUE),
     Event(M_RequestWillBeSent, U_alt, H_noReferer, TRUE),
     Event(M_RequestWillBeSent, U_alt, H_lowerReferer, TRUE),
     \* "headers" is not a mapping: dict(...) raises
     Event(M_RequestWillBeSent, U_main, <<>>, FALSE)}
    \cup ExcludedEntries

Batches == UNION {[1..n -> LogEntries] : n \in 0..MaxBatch}

\* The same for a scan that runs inside a sniff or repair job.
JobBatches == UNION {[1..n -> LogEntries] : n \in 0..MaxJobBatch}

Http(status, body) == [raises |-> FALSE, msg |-> <<>>, status |-> status, body |-> body]

L_StreamInf == S_STREAM_INF \o <<":", "B", "W">>
L_Extinf200_5 == S_EXTINF \o <<"2", "0", "0", ".", "5", ",">>
L_Extinf99_5 == S_EXTINF \o <<"9", "9", ".", "5", ",">>
L_Extinf99_51 == S_EXTINF \o <<"9", "9", ".", "5", "1", ",">>
L_ExtinfBad == S_EXTINF \o <<"x", ",">>

ProbeResponses ==
    {[raises |-> TRUE, msg |-> <<"t", "o">>, status |-> 0, body |-> <<>>],
     Http(404, <<L_StreamInf>>),
     Http(200, <<L_StreamInf, L_Extinf99_5>>),
     Http(200, <<L_Extinf200_5, L_ExtinfBad, L_Extinf99_51>>),
     Http(200, <<L_Extinf200_5, L_Extinf99_5>>)}

(***************************************************************************)
(* core_sniff_logic, one action per step of its loop.  The signal may be   *)
(* set by another thread between any two steps.                            *)
(***************************************************************************)
Reason(tag) == [tag |-> tag, n |-> 0, msg |-> <<>>]

ScanResult(url, headers, reason) == [url |-> url, headers |-> headers, reason |-> reason]

\* The exclusion list with one word missing.
ExcludedWords_NoLitix == <<S_doubleclick, S_adsr, S_segment, S_favicon>>

ExcludedWords == <<S_doubleclick, S_adsr, S_litix, S_segment, S_favicon>>

\* any(x in u for x in [...])
IsExcluded(u) == \E n \in 1..Len(ExcludedWords) : Contains(u, ExcludedWords[n])

\* The entry reaches the classifier: it parses, is a requestWillBeSent event whose
\* URL holds ".m3u8" and no excluded word, and dict(request["headers"]) succeeds.
IsCandidate(e) ==
    /\ e.kind = "event"
    /\ e.method = M_RequestWillBeSent
    /\ Contains(e.url, S_m3u8)
    /\ ~IsExcluded(e.url)
    /\ e.hdrOk

\* tmp_headers without the Referer of lines 387-389
TmpHeaders_NoReferer(e) == e.headers

\* tmp_headers: the request's headers, with a Referer from documentURL when the
\* keys "Referer" and "referer" are both absent.
TmpHeaders(e) ==
    IF ~HasKey(e.headers, K_Referer) /\ ~HasKey(e.headers, K_referer)
    THEN DictPut(e.headers, K_Referer, e.doc)
    ELSE e.headers

\* History only: the entry is an .m3u8 request with one of the five excluded words.
IsExcludedM3u8Request(e) ==
    /\ e.kind = "event"
    /\ e.method = M_RequestWillBeSent
    /\ Contains(e.url, S_m3u8)
    /\ \E w \in {S_doubleclick, S_adsr, S_litix, S_segment, S_favicon} : Contains(e.url, w)

\* The same tests and calls, taken once over the finite input sets.
CandidateEntries == {e \in LogEntries : IsCandidate(e)}

ExcludedRequests == {e \in LogEntries : IsExcludedM3u8Request(e)}

ProbeVerdicts == {CheckIsMainVideo(resp) : resp \in ProbeResponses}

TmpHeadersOf == [e \in CandidateEntries |-> TmpHeaders(e)]

CheckHeadersOf == [e \in CandidateEntries |-> GetHeaders(Some(TmpHeaders(e)), Some(e.url))]

\* The state in which core_sniff_logic(driver, stop_event, log_callback, mw) is entered.
ScanEntered(mw) ==
    /\ scanPc' = "top"
    /\ max_wait' = mw
    /\ i' = 0
    /\ logs' = <<>>
    /\ pos' = 1
    /\ found_m3u8' = None
    /\ captured_headers' = <<>>
    /\ valid_reason' = Reason("")
    /\ scanRet' = None
    /\ nDrain' = 0
    /\ nSleep' = 0
    /\ nClassify' = 0
    /\ probed' = {}
    /\ lastProbe' = None
    /\ stopAtStart' = stop_event
    /\ onlyExcluded' = TRUE
    /\ sawEntry' = FALSE
    /\ acceptIter' = 0

\* return ...: the result is handed to the caller and the locals are gone.
ScanReturn(url, headers, reason) ==
    /\ scanRet' = Some(ScanResult(url, headers, reason))
    /\ scanPc' = "done"
    /\ i' = 0
    /\ logs' = <<>>
    /\ pos' = 1
    /\ probed' = {}
    /\ found_m3u8' = None
    /\ captured_headers' = <<>>
    /\ valid_reason' = Reason("")

\* ScanTop with the signal tested only from the second iteration on.
ScanTop_LateStopTest ==
    /\ scanPc = "top"
    /\ IF i >= max_wait
       THEN ScanReturn(None, None, Reason("Timeout"))
       ELSE IF stop_event /\ i > 0
       THEN ScanReturn(None, None, Reason("Stop"))
       ELSE /\ scanPc' = "drain"
            /\ UNCHANGED <<scanRet, i, logs, pos, probed, found_m3u8, captured_headers,
                           valid_reason>>
    /\ UNCHANGED <<stop_event, max_wait, nDrain, nSleep, nClassify, lastProbe, logged,
                   stopAtStart, onlyExcluded, sawEntry, acceptIter, stopPreAccept, callerVars>>

\* for i in range(max_wait): if stop_event.is_set(): return None, None, "Stop";
\* the progress log of every fifth iteration
ScanTop ==
    /\ scanPc = "top"
    /\ IF i >= max_wait
       THEN /\ ScanReturn(None, None, Reason("Timeout"))
            /\ UNCHANGED logged
       ELSE IF stop_event
       THEN /\ ScanReturn(None, None, Reason("Stop"))
            /\ UNCHANGED logged
       ELSE /\ scanPc' = "drain"
            /\ logged' = IF i > 0 /\ i % 5 = 0 THEN logged \cup {"scan progress"} ELSE logged
            /\ UNCHANGED <<scanRet, i, logs, pos, probed, found_m3u8, captured_headers,
                           valid_reason>>
    /\ UNCHANGED <<stop_event, max_wait, nDrain, nSleep, nClassify, lastProbe,
                   stopAtStart, onlyExcluded, sawEntry, acceptIter, stopPreAccept, callerVars>>

\* logs = driver.get_log("performance"); a failure of the call skips the entries.
ScanDrain ==
    /\ scanPc = "drain"
    /\ nDrain' = nDrain + 1
    /\ \/ /\ scanPc' = "after"
          /\ UNCHANGED <<logs, onlyExcluded, sawEntry>>
       \/ \E b \in (IF sniffPc = "none" /\ batchPc = "none" THEN Batches ELSE JobBatches) :
            /\ logs' = b
            /\ scanPc' = "entries"
            /\ onlyExcluded' = (onlyExcluded /\ \A n \in 1..Len(b) : b[n] \in ExcludedRequests)
            /\ sawEntry' = (sawEntry \/ b # <<>>)
    /\ UNCHANGED <<stop_event, max_wait, i, pos, probed, found_m3u8, captured_headers,
                   valid_reason, scanRet, nSleep, nClassify, lastProbe, logged,
                   stopAtStart, acceptIter, stopPreAccept, callerVars>>

\* ScanEntry whose entry loop ends at an entry that does not parse or whose
\* headers are no mapping (the exception caught outside the loop, not inside).
ScanEntry_FailureEndsBatch ==
    /\ scanPc = "entries"
    /\ IF pos > Len(logs) \/ (logs[pos].kind = "malformed" \/ ~logs[pos].hdrOk)
       THEN /\ scanPc' = "after"
            /\ logs' = <<>>
            /\ pos' = 1
            /\ probed' = {}
            /\ UNCHANGED <<found_m3u8, captured_headers, valid_reason, nClassify,
                           lastProbe, acceptIter>>
       ELSE IF logs[pos] \notin CandidateEntries
       THEN /\ pos' = pos + 1
            /\ UNCHANGED <<scanPc, logs, probed, found_m3u8, captured_headers, valid_reason,
                           nClassify, lastProbe, acceptIter>>
       ELSE \E v \in ProbeVerdicts :
            LET e == logs[pos]
                tmp_headers == TmpHeadersOf[e]
                check_h == CheckHeadersOf[e]
            IN  /\ nClassify' = nClassify + 1
                /\ probed' = probed \cup {pos}
                /\ lastProbe' = Some([url |-> e.url, headers |-> check_h, entry |-> e])
                /\ UNCHANGED logs
                /\ IF v.is_main
                   THEN /\ found_m3u8' = Some(e.url)
                        /\ captured_headers' = tmp_headers
                        /\ valid_reason' = v.reason
                        /\ acceptIter' = i + 1
                        /\ scanPc' = "after"
                        /\ UNCHANGED pos
                   ELSE /\ pos' = pos + 1
                        /\ UNCHANGED <<scanPc, found_m3u8, captured_headers, valid_reason,
                                       acceptIter>>
    /\ UNCHANGED <<stop_event, max_wait, i, scanRet, nDrain, nSleep, logged,
                   stopAtStart, onlyExcluded, sawEntry, stopPreAccept, callerVars>>

\* One turn of `for entry in logs`; when the loop ends without an acceptance the
\* batch is dead (the next read of logs follows its next assignment).
ScanEntry ==
    /\ scanPc = "entries"
    /\ IF pos > Len(logs)
       THEN /\ scanPc' = "after"
            /\ logs' = <<>>
            /\ pos' = 1
            /\ probed' = {}
            /\ UNCHANGED <<found_m3u8, captured_headers, valid_reason, nClassify,
                           lastProbe, acceptIter>>
       ELSE IF logs[pos] \notin CandidateEntries
       THEN /\ pos' = pos + 1
            /\ UNCHANGED <<scanPc, logs, probed, found_m3u8, captured_headers, valid_reason,
                           nClassify, lastProbe, acceptIter>>
       ELSE \E v \in ProbeVerdicts :
            LET e == logs[pos]
                tmp_headers == TmpHeadersOf[e]
                check_h == CheckHeadersOf[e]
            IN  /\ nClassify' = nClassify + 1
                /\ probed' = probed \cup {pos}
                /\ lastProbe' = Some([url |-> e.url, headers |-> check_h, entry |-> e])
                /\ UNCHANGED logs
                /\ IF v.is_main
                   THEN /\ found_m3u8' = Some(e.url)
                        /\ captured_headers' = tmp_headers
                        /\ valid_reason' = v.reason
                        /\ acceptIter' = i + 1
                        /\ scanPc' = "after"
                        /\ UNCHANGED pos
                   ELSE /\ pos' = pos + 1
                        /\ UNCHANGED <<scanPc, found_m3u8, captured_headers, valid_reason,
                                       acceptIter>>
    /\ UNCHANGED <<stop_event, max_wait, i, scanRet, nDrain, nSleep, logged,
                   stopAtStart, onlyExcluded, sawEntry, stopPreAccept, callerVars>>

\* ScanAfter sleeping once more before it returns the accepted candidate.
ScanAfter_SleepThenReturn ==
    /\ scanPc = "after"
    /\ IF found_m3u8 # None /\ found_m3u8[1] # <<>>
       THEN /\ ScanReturn(found_m3u8, Some(captured_headers), valid_reason)
            /\ nSleep' = nSleep + 1
       ELSE /\ scanPc' = "sleep"
            /\ UNCHANGED <<scanRet, i, logs, pos, probed, found_m3u8, captured_headers,
                           valid_reason, nSleep>>
    /\ UNCHANGED <<stop_event, max_wait, nDrain, nClassify, lastProbe, logged,
                   stopAtStart, onlyExcluded, sawEntry, acceptIter, stopPreAccept, callerVars>>

\* if found_m3u8: return found_m3u8, captured_headers, valid_reason
ScanAfter ==
    /\ scanPc = "after"
    /\ IF found_m3u8 # None /\ found_m3u8[1] # <<>>
       THEN ScanReturn(found_m3u8, Some(captured_headers), valid_reason)
       ELSE /\ scanPc' = "sleep"
            /\ UNCHANGED <<scanRet, i, logs, pos, probed, found_m3u8, captured_headers,
                           valid_reason>>
    /\ UNCHANGED <<stop_event, max_wait, nDrain, nSleep, nClassify, lastProbe, logged,
                   stopAtStart, onlyExcluded, sawEntry, acceptIter, stopPreAccept, callerVars>>

\* time.sleep(1), then the next i
ScanSleep ==
    /\ scanPc = "sleep"
    /\ nSleep' = nSleep + 1
    /\ i' = i + 1
    /\ scanPc' = "top"
    /\ UNCHANGED <<stop_event, max_wait, logs, pos, found_m3u8, captured_headers,
                   valid_reason, scanRet, nDrain, nClassify, probed, lastProbe, logged,
                   stopAtStart, onlyExcluded, sawEntry, acceptIter, stopPreAccept, callerVars>>

ScanStep == ScanTop \/ ScanDrain \/ ScanEntry \/ ScanAfter \/ ScanSleep

\* The scan has not returned and has accepted nothing yet.
ScanUndecided == scanPc \notin {"idle", "done"} /\ found_m3u8 = None

\* History only: a job is running and no candidate has been accepted yet (a sniff
\* job before its scan or in it; a scan on its own).
JobUndecided ==
    IF sniffPc = "none" THEN ScanUndecided
    ELSE \/ sniffPc \in {"launch", "load", "title1", "settle", "minimize", "debugsleep"}
         \/ sniffPc = "scan" /\ ScanUndecided

NoApp ==
    /\ data_list = <<>>
    /\ nextUid = 1
    /\ btn_start = "normal"
    /\ btn_stop = "disabled"
    /\ uiQueue = <<>>
    /\ jobs = <<>>
    /\ stopSeq = 0
    /\ active_downloads = <<>>
    /\ dlEvents = <<>>
    /\ dl = <<>>
    /\ strayCancel = FALSE

NoSniffJob ==
    /\ sniffPc = "none"
    /\ debug = FALSE
    /\ hide_delay = 0
    /\ target_url = <<>>
    /\ driver = FALSE
    /\ settleLeft = 0
    /\ raw_title = <<>>
    /\ sniffErr = <<>>
    /\ sniffCalls = <<>>
    /\ nLaunch = 0
    /\ nQuit = 0
    /\ titleReads = <<>>

\* No function is called on its own.
NoCall == fnCall = <<>> /\ fnRet = <<>>

NoBatch ==
    /\ batchPc = "none"
    /\ items = <<>>
    /\ cur = 1
    /\ rowCalls = <<>>
    /\ did = {}

\* stop_event.set(), by the thread that owns the stop control
SetStop ==
    /\ ~stop_event
    /\ stop_event' = TRUE
    /\ stopPreAccept' = (stopPreAccept \/ JobUndecided)
    /\ UNCHANGED <<scanVars, logged, callerVars>>

(***************************************************************************)
(* A scan on its own: core_sniff_logic called with any max_wait within     *)
(* the bound and the signal in either state.                               *)
(***************************************************************************)
InitScan ==
    /\ stop_event \in BOOLEAN
    /\ NoCall
    /\ scanPc = "top"
    /\ max_wait \in 0..MaxWaitBound
    /\ i = 0
    /\ logs = <<>>
    /\ pos = 1
    /\ found_m3u8 = None
    /\ captured_headers = <<>>
    /\ valid_reason = Reason("")
    /\ scanRet = None
    /\ nDrain = 0
    /\ nSleep = 0
    /\ nClassify = 0
    /\ probed = {}
    /\ lastProbe = None
    /\ logged = {}
    /\ stopAtStart = stop_event
    /\ onlyExcluded = TRUE
    /\ sawEntry = FALSE
    /\ acceptIter = 0
    /\ stopPreAccept = stop_event
    /\ NoSniffJob
    /\ NoBatch
    /\ NoApp

NextScan == ScanStep \/ SetStop

SpecScan == InitScan /\ [][NextScan]_vars

(***************************************************************************)
(* Claims about the scan (SpecScan).                                       *)
(***************************************************************************)
ScanDone == scanPc = "done"

ScanReturned == scanRet[1]

\* C8: a scan (max_wait >= 1) entered with the signal already set returns
\* (None, None, "Stop") at its first test, having drained no log, called the
\* classifier never and slept never.
C8_StopAtStartDoesNothing ==
    (stopAtStart /\ max_wait >= 1) =>
        /\ scanPc \in {"top", "done"}
        /\ nDrain = 0 /\ nClassify = 0 /\ nSleep = 0
        /\ ScanDone => scanRet = Some(ScanResult(None, None, Reason("Stop")))

C8_Witness == stopAtStart /\ max_wait >= 1 /\ ScanDone

\* C9: while every drained entry is an excluded .m3u8 request the classifier is
\* never called and nothing is accepted; such a scan, unless it returns "Stop",
\* returns "Timeout" after exactly max_wait drains, each followed by one sleep.
C9_OnlyExcludedTimesOut ==
    onlyExcluded =>
        /\ nClassify = 0 /\ found_m3u8 = None
        /\ (ScanDone /\ ScanReturned.reason.tag # "Stop") =>
               /\ scanRet = Some(ScanResult(None, None, Reason("Timeout")))
               /\ nDrain = max_wait
               /\ nSleep = max_wait

C9_Witness ==
    /\ onlyExcluded /\ sawEntry /\ ScanDone /\ ScanReturned.reason.tag = "Timeout"
    /\ max_wait >= 2 /\ ~stop_event

\* C10: a candidate accepted in iteration k is returned in iteration k: k drains,
\* k-1 sleeps, its own URL, no entry after it in the batch classified, and from
\* the acceptance on the scan only returns.
C10_AcceptedReturnsInSameIteration ==
    /\ (found_m3u8 # None) =>
        /\ scanPc = "after"
        /\ found_m3u8 = Some(logs[pos].url)
        /\ pos \in probed /\ \A n \in probed : n <= pos
    /\ (found_m3u8 # None \/ (ScanDone /\ ScanReturned.url # None)) =>
        /\ acceptIter \in 1..max_wait
        /\ nDrain = acceptIter
        /\ nSleep = acceptIter - 1
        /\ lastProbe # None
        /\ ScanDone => ScanReturned.url = Some(lastProbe[1].url)
        /\ ~ScanDone => found_m3u8 = Some(lastProbe[1].url)

C10_Witness ==
    /\ found_m3u8 # None /\ ~stop_event
    /\ acceptIter >= 2
    /\ pos < Len(logs) /\ logs[pos + 1] \in CandidateEntries

(***************************************************************************)
(* single_sniff_thread, one action per call that can block, fail or be     *)
(* overtaken by stop_event.set().                                          *)
(***************************************************************************)
M_Success == <<"S", "u", "c", "c", "e", "s", "s">>
M_Timeout == <<"T", "i", "m", "e", "o", "u", "t">>

\* Abbreviations of the two placeholder titles of lines 431 and 433.
T_UnknownTitle == <<"u", "n", "k", "n", "o", "w", "n">>
T_UnnamedPage == <<"u", "n", "n", "a", "m", "e", "d">>

\* What driver.title may hold, and the texts of the exceptions a session call raises.
PageTitles == {<<>>, <<" ">>, <<"T">>, <<" ", "U">>}
ErrMsgs == {<<"e", "r", "r">>}

\* max_wait of this job's scan: the bound stands for the default of 60 (line 355).
SniffMaxWait == 2

\* A status text; the percentage of f"{val:.1f}%" is kept beside it.
Status(text) == [text |-> text, pct |-> None]

ST_OK == "OK"

MediaItem(title, m3u8, original_url, headers, checked, status) ==
    [title |-> title, m3u8 |-> m3u8, original_url |-> original_url,
     headers |-> headers, checked |-> checked, status |-> status]

SniffCall(item, msg) == [item |-> item, msg |-> msg]

\* try: ... except Exception as e: log, update_callback(None, str(e))
SniffRaise(msg) ==
    /\ sniffErr' = msg
    /\ sniffPc' = "except"

\* driver = create_driver(settings)
SniffLaunch ==
    /\ sniffPc = "launch"
    /\ \/ /\ driver' = TRUE
          /\ nLaunch' = nLaunch + 1
          /\ sniffPc' = "load"
          /\ UNCHANGED sniffErr
       \/ \E m \in ErrMsgs :
            /\ SniffRaise(m)
            /\ UNCHANGED <<driver, nLaunch>>
    /\ logged' = logged \cup {"sniff launch"}
    /\ UNCHANGED <<stop_event, scanVars, stopPreAccept, debug, hide_delay, target_url,
                   settleLeft, raw_title, sniffCalls, nQuit, titleReads, batchVars, appVars, fnVars>>

\* driver.get(target_url)
SniffLoad ==
    /\ sniffPc = "load"
    /\ \/ /\ sniffPc' = "title1"
          /\ UNCHANGED sniffErr
       \/ \E m \in ErrMsgs : SniffRaise(m)
    /\ logged' = logged \cup {"sniff load"}
    /\ UNCHANGED <<stop_event, scanVars, stopPreAccept, debug, hide_delay, target_url,
                   driver, settleLeft, raw_title, sniffCalls, nLaunch, nQuit, titleReads, batchVars, appVars, fnVars>>

\* raw_title = str(driver.title).strip() or "unnamed page", "unknown title" if the
\* read fails; then the branch on debug
SniffTitle1 ==
    /\ sniffPc = "title1"
    /\ \/ /\ raw_title' = T_UnknownTitle
          /\ titleReads' = Append(titleReads, None)
       \/ \E ttl \in PageTitles :
            /\ raw_title' = IF Strip(ttl) # <<>> THEN Strip(ttl) ELSE T_UnnamedPage
            /\ titleReads' = Append(titleReads, Some(ttl))
    /\ IF ~debug
       THEN /\ sniffPc' = "settle"
            /\ settleLeft' = hide_delay
            /\ logged' = logged \cup {"sniff wait"}
       ELSE /\ sniffPc' = "debugsleep"
            /\ UNCHANGED <<settleLeft, logged>>
    /\ UNCHANGED <<stop_event, scanVars, stopPreAccept, debug, hide_delay, target_url,
                   driver, sniffErr, sniffCalls, nLaunch, nQuit, batchVars, appVars, fnVars>>

\* SniffSettle whose return on the signal leaves the function without the finally.
SniffSettle_ReturnsWithoutClose ==
    /\ sniffPc = "settle"
    /\ IF settleLeft = 0
       THEN /\ sniffPc' = "minimize"
            /\ UNCHANGED settleLeft
       ELSE IF stop_event
       THEN /\ sniffPc' = "done"
            /\ UNCHANGED settleLeft
       ELSE /\ settleLeft' = settleLeft - 1
            /\ UNCHANGED sniffPc
    /\ UNCHANGED <<stop_event, scanVars, logged, stopPreAccept, debug, hide_delay,
                   target_url, driver, raw_title, sniffErr, sniffCalls, nLaunch, nQuit,
                   titleReads, batchVars, appVars, fnVars>>

\* for _ in range(hide_delay): if stop_event.is_set(): return; time.sleep(1)
SniffSettle ==
    /\ sniffPc = "settle"
    /\ IF settleLeft = 0
       THEN /\ sniffPc' = "minimize"
            /\ UNCHANGED settleLeft
       ELSE IF stop_event
       THEN /\ sniffPc' = "finally"
            /\ UNCHANGED settleLeft
       ELSE /\ settleLeft' = settleLeft - 1
            /\ UNCHANGED sniffPc
    /\ UNCHANGED <<stop_event, scanVars, logged, stopPreAccept, debug, hide_delay,
                   target_url, driver, raw_title, sniffErr, sniffCalls, nLaunch, nQuit, titleReads, batchVars, appVars, fnVars>>

\* driver.minimize_window() (a failure is swallowed), or time.sleep(2) in debug
\* mode; then core_sniff_logic(driver, stop_event, log_callback) is entered
SniffEnterScan ==
    /\ sniffPc \in {"minimize", "debugsleep"}
    /\ sniffPc' = "scan"
    /\ ScanEntered(SniffMaxWait)
    /\ UNCHANGED <<stop_event, logged, stopPreAccept, debug, hide_delay, target_url,
                   driver, settleLeft, raw_title, sniffErr, sniffCalls, nLaunch, nQuit, titleReads, batchVars, appVars, fnVars>>

\* SniffTitle2 that keeps the title read after the load.
SniffTitle2_KeepsFirstTitle ==
    /\ sniffPc = "scan"
    /\ scanPc = "done"
    /\ \/ titleReads' = Append(titleReads, None)
       \/ \E ttl \in PageTitles : titleReads' = Append(titleReads, Some(ttl))
    /\ sniffPc' = "report"
    /\ UNCHANGED <<stop_event, scanVars, logged, stopPreAccept, debug, hide_delay,
                   target_url, driver, settleLeft, raw_title, sniffErr, sniffCalls, nLaunch,
                   nQuit, batchVars, appVars, fnVars>>

\* m3u8, headers, reason = <the scan's result>; raw_title = str(driver.title).strip()
\* or raw_title, unchanged if the read fails
SniffTitle2 ==
    /\ sniffPc = "scan"
    /\ scanPc = "done"
    /\ \/ /\ UNCHANGED raw_title
          /\ titleReads' = Append(titleReads, None)
       \/ \E ttl \in PageTitles :
            /\ raw_title' = IF Strip(ttl) # <<>> THEN Strip(ttl) ELSE raw_title
            /\ titleReads' = Append(titleReads, Some(ttl))
    /\ sniffPc' = "report"
    /\ UNCHANGED <<stop_event, scanVars, logged, stopPreAccept, debug, hide_delay,
                   target_url, driver, settleLeft, sniffErr, sniffCalls, nLaunch, nQuit, batchVars, appVars, fnVars>>

\* if m3u8 and headers is not None: update_callback(result, "Success")
\* else: update_callback(None, "Timeout")
SniffReport ==
    /\ sniffPc = "report"
    /\ LET m3u8 == scanRet[1].url
           headers == scanRet[1].headers
       IN  IF m3u8 # None /\ m3u8[1] # <<>> /\ headers # None
           THEN /\ sniffCalls' = Append(sniffCalls,
                       SniffCall(Some(MediaItem(raw_title, m3u8[1], target_url,
                                                headers[1], TRUE, Status(ST_OK))), M_Success))
                /\ logged' = logged \cup {"sniff found"}
           ELSE /\ sniffCalls' = Append(sniffCalls, SniffCall(None, M_Timeout))
                /\ logged' = logged \cup {"sniff timeout"}
    /\ sniffPc' = "finally"
    /\ UNCHANGED <<stop_event, scanVars, stopPreAccept, debug, hide_delay, target_url,
                   driver, settleLeft, raw_title, sniffErr, nLaunch, nQuit, titleReads, batchVars, appVars, fnVars>>

\* except Exception as e: log_callback(...); update_callback(None, str(e))
SniffExcept ==
    /\ sniffPc = "except"
    /\ sniffCalls' = Append(sniffCalls, SniffCall(None, sniffErr))
    /\ logged' = logged \cup {"sniff error"}
    /\ sniffPc' = "finally"
    /\ UNCHANGED <<stop_event, scanVars, stopPreAccept, debug, hide_delay, target_url,
                   driver, settleLeft, raw_title, sniffErr, nLaunch, nQuit, titleReads, batchVars, appVars, fnVars>>

\* finally: if driver: driver.quit() (a failure is swallowed)
SniffFinally ==
    /\ sniffPc = "finally"
    /\ nQuit' = IF driver THEN nQuit + 1 ELSE nQuit
    /\ sniffPc' = "done"
    /\ UNCHANGED <<stop_event, scanVars, logged, stopPreAccept, debug, hide_delay,
                   target_url, driver, settleLeft, raw_title, sniffErr, sniffCalls, nLaunch, titleReads, batchVars, appVars, fnVars>>

SniffStep ==
    \/ SniffLaunch \/ SniffLoad \/ SniffTitle1 \/ SniffSettle \/ SniffEnterScan
    \/ SniffTitle2 \/ SniffReport \/ SniffExcept \/ SniffFinally

(***************************************************************************)
(* One sniff job, as App.start_sniff starts it: the signal was just        *)
(* cleared, the URL starts with "http", the settings are any.              *)
(***************************************************************************)
\* No scan has been called.
NoScan ==
    /\ scanPc = "idle"
    /\ max_wait = 0
    /\ i = 0
    /\ logs = <<>>
    /\ pos = 1
    /\ found_m3u8 = None
    /\ captured_headers = <<>>
    /\ valid_reason = Reason("")
    /\ scanRet = None
    /\ nDrain = 0
    /\ nSleep = 0
    /\ nClassify = 0
    /\ probed = {}
    /\ lastProbe = None
    /\ logged = {}
    /\ stopAtStart = FALSE
    /\ onlyExcluded = TRUE
    /\ sawEntry = FALSE
    /\ acceptIter = 0
    /\ stopPreAccept = FALSE

InitSniff ==
    /\ stop_event = FALSE
    /\ NoCall
    /\ NoScan
    /\ sniffPc = "launch"
    /\ debug \in BOOLEAN
    /\ hide_delay \in 0..MaxHideDelay
    /\ target_url = U_page
    /\ driver = FALSE
    /\ settleLeft = 0
    /\ raw_title = <<>>
    /\ sniffErr = <<>>
    /\ sniffCalls = <<>>
    /\ nLaunch = 0
    /\ nQuit = 0
    /\ titleReads = <<>>
    /\ NoBatch
    /\ NoApp

NextSniff == SniffStep \/ ScanStep \/ SetStop

SpecSniff == InitSniff /\ [][NextSniff]_vars

(***************************************************************************)
(* Claims about the sniff job (SpecSniff).                                 *)
(***************************************************************************)
SniffDone == sniffPc = "done"

ItemReported == \E n \in 1..Len(sniffCalls) : sniffCalls[n].item # None

TimeoutReported == \E n \in 1..Len(sniffCalls) : sniffCalls[n].msg = M_Timeout

\* C1: a sniff job whose signal was set before any candidate was accepted never
\* invokes the result callback with a MediaItem nor with the message "Timeout".
C1_CancelledSniffReportsNeitherItemNorTimeout ==
    stopPreAccept => (~ItemReported /\ ~TimeoutReported)

(***************************************************************************)
(* App: the handlers of the main window, the callbacks they schedule with  *)
(* root.after, and the threads they start.  Indices are 1-based.           *)
(***************************************************************************)
MaxItems == 2
MaxItemsEver == 3
MaxJobs == 2
MaxPolls == 1
MaxDownloads == 1
MaxHooks == 2
MaxQueue == 2

\* Titles: a short one, and one that spells the words download_task looks for.
T_A == <<"A">>
T_Cancelled == S_DownloadCancelled
Titles == {T_A, T_Cancelled}

U_bad == <<"f", "t", "p">>

\* Abbreviations of the status texts the handlers write.
ST_Imported == "imported"
ST_Preparing == "preparing"
ST_Done == "done"
ST_Stopped == "stopped"
ST_Error == "error"
ST_Percent == "%"

\* "task ended" in status: none of the status texts above holds these words.
MentionsTaskEnd(status) == status.text = "task ended"

\* One dict of data_list; uid is the identity of the dict object.
ListItem(uid, m) ==
    [uid |-> uid, title |-> m.title, m3u8 |-> m.m3u8, original_url |-> m.original_url,
     headers |-> m.headers, checked |-> m.checked, status |-> m.status]

\* What a JSON file may hold: an entry with everything, and one without m3u8.
ImportableItems ==
    {MediaItem(t, U_main, U_page, <<>>, TRUE, Status(ST_Imported)) : t \in Titles}
        \cup {MediaItem(t, <<>>, <<>>, <<>>, TRUE, Status(ST_Imported)) : t \in Titles}

\* What a sniff job hands to on_sniff_result on success.
SniffedItem == MediaItem(T_A, U_main, U_page, BaselineHeaders, TRUE, Status(ST_OK))

\* The callbacks of root.after(0, ...): _u of update_row_status, _u of
\* update_progress, _handle of on_sniff_result.
RowCallback(idx, status, new_url, new_headers) ==
    [kind |-> "row", idx |-> idx, status |-> status, new_url |-> new_url,
     new_headers |-> new_headers, title |-> <<>>, val |-> F_num(0),
     result |-> None, msg |-> <<>>]

ProgressCallback(title, val) ==
    [kind |-> "progress", idx |-> 0, status |-> Status(""), new_url |-> None,
     new_headers |-> None, title |-> title, val |-> val, result |-> None, msg |-> <<>>]

SniffCallback(result, msg) ==
    [kind |-> "sniff", idx |-> 0, status |-> Status(""), new_url |-> None,
     new_headers |-> None, title |-> <<>>, val |-> F_num(0), result |-> result, msg |-> msg]

\* The values of progress_callback: 100.0, -1.0, -2.0
V_100 == F_num(10000)
V_Cancelled == F_num(0 - 100)
V_Failed == F_num(0 - 200)

\* del d[k] / d.pop(k, None)
DictDel(d, k) == SelectSeq(d, LAMBDA kv : kv[1] # k)

\* get_target_indices(): the selected rows, or else the checked ones; any set of
\* rows can be selected.
TargetSets == SUBSET (1..Len(data_list))

RECURSIVE Ascending(_)
Ascending(S) ==
    IF S = {} THEN <<>>
    ELSE LET m == CHOOSE x \in S : \A y \in S : x <= y
         IN  <<m>> \o Ascending(S \ {m})

\* for i, d in enumerate(self.data_list): if d.get('title') == title: idx = i; break
FirstWithTitle(list, title) ==
    IF \E n \in 1..Len(list) : list[n].title = title
    THEN CHOOSE n \in 1..Len(list) :
             /\ list[n].title = title
             /\ \A k \in 1..(n - 1) : list[k].title # title
    ELSE 0

\* What the App never touches: the locals of the scan and of the sniff job above.
threadLocals == <<scanVars, logged, stopPreAccept, sniffVars, batchVars, fnVars>>

\* Results on their way to data_list, and the room the bounds leave for new items.
PendingItems == Cardinality({n \in 1..Len(uiQueue) : uiQueue[n].result # None})

ItemsRoom ==
    LET room == MaxItems - Len(data_list) - PendingItems
        fresh == MaxItemsEver + 1 - nextUid
    IN  IF room < fresh THEN room ELSE fresh

\* import_json: self.data_list.extend(parsed_data)
ImportJson ==
    /\ \E n \in 1..ItemsRoom : \E file \in [1..n -> ImportableItems] :
           /\ data_list' = data_list \o [k \in 1..n |-> ListItem(nextUid + k - 1, file[k])]
           /\ nextUid' = nextUid + n
    /\ UNCHANGED <<stop_event, threadLocals, btn_start, btn_stop, uiQueue, jobs, stopSeq,
                   active_downloads, dlEvents, dl, strayCancel>>

\* update_title(idx, t), from the title editor of row idx
UpdateTitle ==
    /\ \E idx \in 1..Len(data_list) : \E t \in Titles :
           /\ data_list[idx].title # t
           /\ data_list' = [data_list EXCEPT ![idx].title = t]
    /\ UNCHANGED <<stop_event, threadLocals, nextUid, btn_start, btn_stop, uiQueue, jobs,
                   stopSeq, active_downloads, dlEvents, dl, strayCancel>>

\* delete_selected: for i in sorted(target_indices, reverse=True): del self.data_list[i]
DeleteSelected ==
    /\ \E targets \in TargetSets \ {{}} :
           data_list' = [k \in 1..(Len(data_list) - Cardinality(targets)) |->
                            data_list[Ascending((1..Len(data_list)) \ targets)[k]]]
    /\ UNCHANGED <<stop_event, threadLocals, nextUid, btn_start, btn_stop, uiQueue, jobs,
                   stopSeq, active_downloads, dlEvents, dl, strayCancel>>

\* A download Event: its flag, and the item whose download it was created for.
DlEvent(uid) == [set |-> FALSE, uid |-> uid]

\* A download_task thread; after url, title, stop_event and item_data (by identity)
\* come the number of hook calls that returned, and history: why the transfer was
\* aborted, the sentinels given to progress_callback, whether a hook call that
\* found the signal set gave progress_callback anything, and whether the engine
\* has delivered the event 'finished' to the hook.
DlJob(data, ev) ==
    [title |-> data.title, url |-> data.m3u8, ev |-> ev, uid |-> data.uid,
     pc |-> "running", hooks |-> 0, abort |-> "none", sentinels |-> <<>>,
     fwdAfterSet |-> FALSE, finished |-> FALSE]

\* The loop of download_selected over target_indices; st holds active_downloads,
\* the Events, the threads and the scheduled callbacks.
RECURSIVE DownloadLoop(_, _, _)
DownloadLoop(idxs, n, st) ==
    IF n > Len(idxs) THEN st
    ELSE LET idx == idxs[n]
             data == data_list[idx]
             title == data.title
             stop_evt == Len(st.events) + 1
             st1 == [active |-> DictPut(st.active, title, stop_evt),
                     events |-> Append(st.events, DlEvent(data.uid)),
                     threads |-> st.threads,
                     queue |-> Append(st.queue, RowCallback(idx, Status(ST_Preparing), None, None))]
         IN  IF HasKey(st.active, title) THEN DownloadLoop(idxs, n + 1, st)
             ELSE IF data.m3u8 = <<>> THEN DownloadLoop(idxs, n + 1, st1)
             ELSE DownloadLoop(idxs, n + 1,
                               [st1 EXCEPT !.threads = Append(@, DlJob(data, stop_evt))])

DownloadSelected ==
    /\ \E targets \in TargetSets \ {{}} :
           /\ LET st == DownloadLoop(Ascending(targets), 1,
                                     [active |-> active_downloads, events |-> dlEvents,
                                      threads |-> dl, queue |-> uiQueue])
              IN  /\ Len(st.events) <= MaxDownloads
                  /\ Len(st.queue) <= MaxQueue
                  /\ st.events # dlEvents
                  /\ active_downloads' = st.active
                  /\ dlEvents' = st.events
                  /\ dl' = st.threads
                  /\ uiQueue' = st.queue
    /\ UNCHANGED <<stop_event, threadLocals, data_list, nextUid, btn_start, btn_stop, jobs,
                   stopSeq, strayCancel>>

\* The Events that stop_download_selected sets for these rows.
EventsToSet(targets) ==
    {DictGet(active_downloads, data_list[idx].title) :
         idx \in {k \in targets : HasKey(active_downloads, data_list[k].title)}}

\* History: a row of targets reaches the Event of a running download of another item.
ReachesOtherItem(targets) ==
    \E idx \in targets :
        /\ HasKey(active_downloads, data_list[idx].title)
        /\ LET ev == DictGet(active_downloads, data_list[idx].title)
           IN  /\ dlEvents[ev].uid # data_list[idx].uid
               /\ \E j \in 1..Len(dl) : dl[j].ev = ev /\ dl[j].pc = "running"

StopDownloadSelected ==
    /\ \E targets \in TargetSets \ {{}} :
           /\ EventsToSet(targets) # {}
           /\ dlEvents' = [e \in 1..Len(dlEvents) |->
                              IF e \in EventsToSet(targets)
                              THEN [dlEvents[e] EXCEPT !.set = TRUE] ELSE dlEvents[e]]
           /\ strayCancel' = (strayCancel \/ ReachesOtherItem(targets))
    /\ UNCHANGED <<stop_event, threadLocals, data_list, nextUid, btn_start, btn_stop,
                   uiQueue, jobs, stopSeq, active_downloads, dl>>

(***************************************************************************)
(* The callbacks, run by the UI thread in the order they were scheduled.   *)
(***************************************************************************)
\* _u of update_row_status writing new_url without the test `if new_url:`.
RunRowUpdate_UnguardedUrl ==
    /\ uiQueue # <<>> /\ Head(uiQueue).kind = "row"
    /\ LET c == Head(uiQueue)
       IN  /\ data_list' =
                  IF c.idx <= Len(data_list)
                  THEN [data_list EXCEPT
                           ![c.idx].status = c.status,
                           ![c.idx].m3u8 = IF c.new_url # None THEN c.new_url[1] ELSE <<>>,
                           ![c.idx].headers = IF c.new_headers # None /\ c.new_headers[1] # <<>>
                                              THEN c.new_headers[1] ELSE @]
                  ELSE data_list
           /\ btn_stop' = IF MentionsTaskEnd(c.status) THEN "disabled" ELSE btn_stop
    /\ uiQueue' = Tail(uiQueue)
    /\ UNCHANGED <<stop_event, threadLocals, nextUid, btn_start, jobs, stopSeq,
                   active_downloads, dlEvents, dl, strayCancel>>

\* _u of update_row_status
RunRowUpdate ==
    /\ uiQueue # <<>> /\ Head(uiQueue).kind = "row"
    /\ LET c == Head(uiQueue)
       IN  /\ data_list' =
                  IF c.idx <= Len(data_list)
                  THEN [data_list EXCEPT
                           ![c.idx].status = c.status,
                           ![c.idx].m3u8 = IF c.new_url # None /\ c.new_url[1] # <<>>
                                           THEN c.new_url[1] ELSE @,
                           ![c.idx].headers = IF c.new_headers # None /\ c.new_headers[1] # <<>>
                                              THEN c.new_headers[1] ELSE @]
                  ELSE data_list
           /\ btn_stop' = IF MentionsTaskEnd(c.status) THEN "disabled" ELSE btn_stop
    /\ uiQueue' = Tail(uiQueue)
    /\ UNCHANGED <<stop_event, threadLocals, nextUid, btn_start, jobs, stopSeq,
                   active_downloads, dlEvents, dl, strayCancel>>

\* f"{val:.1f}": the values formatted here have no digit after the first decimal.
Format1(val) == <<val.kind, val.centi \div 10>>

\* _u of update_progress
RunUpdateProgress ==
    /\ uiQueue # <<>> /\ Head(uiQueue).kind = "progress"
    /\ LET title == Head(uiQueue).title
           val == Head(uiQueue).val
           idx == FirstWithTitle(data_list, title)
           negative == (val.kind = "num" /\ val.centi < 0) \/ val.kind = "ninf"
       IN  IF idx = 0
           THEN UNCHANGED <<data_list, active_downloads>>
           ELSE IF val = V_100
           THEN /\ data_list' = [data_list EXCEPT ![idx].status = Status(ST_Done)]
                /\ active_downloads' = DictDel(active_downloads, title)
           ELSE IF negative
           THEN /\ data_list' = [data_list EXCEPT ![idx].status =
                                    Status(IF val = V_Cancelled THEN ST_Stopped ELSE ST_Error)]
                /\ active_downloads' = DictDel(active_downloads, title)
           ELSE /\ data_list' = [data_list EXCEPT ![idx].status =
                                    [text |-> ST_Percent, pct |-> Some(Format1(val))]]
                /\ UNCHANGED active_downloads
    /\ uiQueue' = Tail(uiQueue)
    /\ UNCHANGED <<stop_event, threadLocals, nextUid, btn_start, btn_stop, jobs, stopSeq,
                   dlEvents, dl, strayCancel>>

\* _handle of on_sniff_result
RunOnSniffResult ==
    /\ uiQueue # <<>> /\ Head(uiQueue).kind = "sniff"
    /\ btn_start' = "normal"
    /\ btn_stop' = "disabled"
    /\ data_list' = IF Head(uiQueue).result # None
                    THEN Append(data_list, Head(uiQueue).result[1]) ELSE data_list
    /\ uiQueue' = Tail(uiQueue)
    /\ UNCHANGED <<stop_event, threadLocals, nextUid, jobs, stopSeq, active_downloads,
                   dlEvents, dl, strayCancel>>

(***************************************************************************)
(* download_task: the progress hook, and the ways ydl.download([url])      *)
(* ends.  An exception raised by the hook leaves ydl.download as raised,   *)
(* which is what the except clause of line 635 is written for.             *)
(***************************************************************************)
ESC == "ESC"

\* d['_percent_str'] of a 'downloading' event: a coloured percentage with one
\* decimal, the last percentage, and a text that is no number
P_Coloured50 == <<ESC, "[", "0", ";", "9", "4", "m", " ", "5", "0", ".", "0", "%", ESC, "[", "0", "m">>
P_100 == <<"1", "0", "0", "%">>
P_NA == <<"N", "/", "A">>

HookEvents ==
    {[status |-> "downloading", percent_str |-> Some(p)] : p \in {P_Coloured50, P_100, P_NA}}
        \cup {[status |-> "finished", percent_str |-> None],
              [status |-> "error", percent_str |-> None]}

\* s.replace(c, '')
RemoveChar(s, c) == SelectSeq(s, LAMBDA x : x # c)

\* re.sub(r'\x1b\[[0-9;]*m', '', s)
RECURSIVE StripAnsi(_)
StripAnsi(s) ==
    IF s = <<>> THEN <<>>
    ELSE IF s[1] = ESC /\ Len(s) >= 2 /\ s[2] = "["
    THEN LET rest == {k \in 3..Len(s) : ~(IsDigit(s[k]) \/ s[k] = ";")}
             stop == IF rest = {} THEN Len(s) + 1
                     ELSE CHOOSE k \in rest : \A m \in rest : k <= m
         IN  IF stop <= Len(s) /\ s[stop] = "m"
             THEN StripAnsi(SubSeq(s, stop + 1, Len(s)))
             ELSE <<s[1]>> \o StripAnsi(Tail(s))
    ELSE <<s[1]>> \o StripAnsi(Tail(s))

\* hook(d) when it forwards a finished event although the signal is set
Hook_StatusFirst(is_set, d) ==
    IF d.status = "finished" THEN [raises |-> FALSE, calls |-> <<V_100>>]
    ELSE IF is_set THEN [raises |-> TRUE, calls |-> <<>>]
    ELSE IF d.status = "downloading"
    THEN LET p_str == IF d.percent_str = None THEN <<"0", "%">> ELSE d.percent_str[1]
             val == ParseFloat(Strip(StripAnsi(RemoveChar(p_str, "%"))))
         IN  [raises |-> FALSE, calls |-> IF val.ok THEN <<val>> ELSE <<>>]
    ELSE [raises |-> FALSE, calls |-> <<>>]

\* hook(d): whether it raises Exception("Download Cancelled"), and the values it
\* gives to progress_callback
Hook(is_set, d) ==
    IF is_set THEN [raises |-> TRUE, calls |-> <<>>]
    ELSE IF d.status = "downloading"
    THEN LET p_str == IF d.percent_str = None THEN <<"0", "%">> ELSE d.percent_str[1]
             val == ParseFloat(Strip(StripAnsi(RemoveChar(p_str, "%"))))
         IN  [raises |-> FALSE, calls |-> IF val.ok THEN <<val>> ELSE <<>>]
    ELSE IF d.status = "finished" THEN [raises |-> FALSE, calls |-> <<V_100>>]
    ELSE [raises |-> FALSE, calls |-> <<>>]

HookOf == [is_set \in BOOLEAN, d \in HookEvents |-> Hook(is_set, d)]

\* safe_title = re.sub(r'[\\/*?:"<>|]', "", title)
SafeTitle(title) ==
    SelectSeq(title, LAMBDA c : c \notin {"\\", "/", "*", "?", ":", "\"", "<", ">", "|"})

\* str(e) of the exceptions the engine raises on its own: a refused request, and a
\* failure to write the output file, which is named after safe_title (line 588).
E_Forbidden == <<"4", "0", "3">>
E_CannotWrite == <<"w", "r", "i", "t", "e", " ">>
EngineErrors(title) == {E_Forbidden, E_CannotWrite \o SafeTitle(title)}

\* except Exception as e: -1.0 if "Download Cancelled" in str(e) else -2.0
SentinelFor(msg) == IF Contains(msg, S_DownloadCancelled) THEN V_Cancelled ELSE V_Failed

SentinelOf ==
    [msg \in {S_DownloadCancelled} \cup UNION {EngineErrors(title) : title \in Titles} |->
        SentinelFor(msg)]

\* The except clause of thread j, for an exception with text msg; cause is history.
DlExcept(j, msg, cause) ==
    /\ Len(uiQueue) < MaxQueue
    /\ uiQueue' = Append(uiQueue, ProgressCallback(dl[j].title, SentinelOf[msg]))
    /\ dl' = [dl EXCEPT ![j].pc = "done", ![j].hooks = 0, ![j].abort = cause,
                        ![j].sentinels = Append(@, SentinelOf[msg])]

\* The engine calls hook(d).
DlHook ==
    /\ \E j \in 1..Len(dl) : \E d \in HookEvents :
           /\ dl[j].pc = "running"
           /\ LET is_set == dlEvents[dl[j].ev].set
                  h == HookOf[is_set, d]
              IN  IF h.raises THEN DlExcept(j, S_DownloadCancelled, "cancel")
                  ELSE /\ dl[j].hooks < MaxHooks
                       /\ Len(uiQueue) + Len(h.calls) <= MaxQueue
                       /\ uiQueue' = uiQueue \o
                              [k \in 1..Len(h.calls) |-> ProgressCallback(dl[j].title, h.calls[k])]
                       /\ dl' = [dl EXCEPT
                                    ![j].hooks = @ + 1,
                                    ![j].fwdAfterSet = @ \/ (is_set /\ h.calls # <<>>),
                                    ![j].finished = @ \/ d.status = "finished"]
    /\ UNCHANGED <<stop_event, threadLocals, data_list, nextUid, btn_start, btn_stop, jobs,
                   stopSeq, active_downloads, dlEvents, strayCancel>>

\* ydl.download raises on its own.
DlEngineFails ==
    /\ \E j \in 1..Len(dl) : \E msg \in EngineErrors(dl[j].title) :
           /\ dl[j].pc = "running"
           /\ DlExcept(j, msg, "engine")
    /\ UNCHANGED <<stop_event, threadLocals, data_list, nextUid, btn_start, btn_stop, jobs,
                   stopSeq, active_downloads, dlEvents, strayCancel>>

\* ydl.download returns.
DlReturns ==
    /\ \E j \in 1..Len(dl) :
           /\ dl[j].pc = "running"
           /\ dl' = [dl EXCEPT ![j].pc = "done", ![j].hooks = 0]
    /\ UNCHANGED <<stop_event, threadLocals, data_list, nextUid, btn_start, btn_stop, uiQueue,
                   jobs, stopSeq, active_downloads, dlEvents, strayCancel>>

(***************************************************************************)
(* The sniff and batch jobs as the App sees them: each thread was given    *)
(* self.stop_event, reads it at the top of its loops (lines 362, 440, 493, *)
(* 530, 545) and ends.  The three last fields are history: the signal was  *)
(* set while the job ran, the job then read it unset, and which setting of *)
(* the signal stopped the job.                                             *)
(***************************************************************************)
Job(kind) ==
    [kind |-> kind, st |-> "running", polls |-> 0,
     asked |-> FALSE, missed |-> FALSE, stoppedBy |-> 0]

\* start_sniff, with what the address field holds
StartSniff ==
    /\ btn_start = "normal"
    /\ Len(jobs) < MaxJobs
    /\ \E url \in {U_page, <<" ">> \o U_page, U_bad} : StartsWith(Strip(url), S_http)
    /\ stop_event' = FALSE
    /\ btn_start' = "disabled"
    /\ btn_stop' = "normal"
    /\ jobs' = Append(jobs, Job("sniff"))
    /\ UNCHANGED <<threadLocals, data_list, nextUid, uiQueue, stopSeq, active_downloads,
                   dlEvents, dl, strayCancel>>

\* stop_sniff
StopSniff ==
    /\ btn_stop = "normal"
    /\ ~stop_event
    /\ stop_event' = TRUE
    /\ stopSeq' = stopSeq + 1
    /\ jobs' = [j \in 1..Len(jobs) |->
                   IF jobs[j].st = "running" THEN [jobs[j] EXCEPT !.asked = TRUE] ELSE jobs[j]]
    /\ dlEvents' = dlEvents
    /\ strayCancel' = (strayCancel \/ \E e \in 1..Len(dlEvents) :
                                          dlEvents'[e].set /\ ~dlEvents[e].set)
    /\ UNCHANGED <<threadLocals, data_list, nextUid, btn_start, btn_stop, uiQueue,
                   active_downloads, dl>>

\* check_validity_selected
CheckValiditySelected ==
    /\ Len(jobs) < MaxJobs
    /\ \E targets \in TargetSets \ {{}} : TRUE
    /\ stop_event' = FALSE
    /\ jobs' = Append(jobs, Job("validity"))
    /\ UNCHANGED <<threadLocals, data_list, nextUid, btn_start, btn_stop, uiQueue, stopSeq,
                   active_downloads, dlEvents, dl, strayCancel>>

\* repair_selected, confirmed in the dialog
RepairSelected ==
    /\ Len(jobs) < MaxJobs
    /\ \E targets \in TargetSets \ {{}} :
           \E idx \in targets : data_list[idx].original_url # <<>>
    /\ stop_event' = FALSE
    /\ btn_stop' = "normal"
    /\ jobs' = Append(jobs, Job("repair"))
    /\ UNCHANGED <<threadLocals, data_list, nextUid, btn_start, uiQueue, stopSeq,
                   active_downloads, dlEvents, dl, strayCancel>>

\* stop_event.is_set() at the top of a loop of thread j.  A sniff job that reads
\* the signal set returns without a word from its settle loop (line 441) or goes
\* on from its scan to update_callback(None, "Timeout") (line 471).
JobPoll ==
    /\ \E j \in 1..Len(jobs) :
           /\ jobs[j].st = "running"
           /\ IF stop_event
              THEN /\ jobs' = [jobs EXCEPT ![j].st = "stopped", ![j].stoppedBy = stopSeq]
                   /\ IF jobs[j].kind = "sniff"
                      THEN \/ UNCHANGED uiQueue
                           \/ /\ Len(uiQueue) < MaxQueue
                              /\ uiQueue' = Append(uiQueue, SniffCallback(None, M_Timeout))
                      ELSE UNCHANGED uiQueue
              ELSE /\ jobs[j].polls < MaxPolls
                   /\ jobs' = [jobs EXCEPT ![j].polls = @ + 1,
                                           ![j].missed = @ \/ jobs[j].asked]
                   /\ UNCHANGED uiQueue
    /\ UNCHANGED <<stop_event, threadLocals, data_list, nextUid, btn_start, btn_stop, stopSeq,
                   active_downloads, dlEvents, dl, strayCancel>>

\* Thread j comes to its end: a sniff job with update_callback(result, "Success")
\* or update_callback(None, "Timeout").
JobEnd ==
    /\ \E j \in 1..Len(jobs) :
           /\ jobs[j].st = "running"
           /\ jobs[j].polls >= 1
           /\ jobs' = [jobs EXCEPT ![j].st = "ended"]
           /\ IF jobs[j].kind = "sniff"
              THEN /\ Len(uiQueue) < MaxQueue
                   /\ \/ /\ ItemsRoom >= 1
                         /\ uiQueue' = Append(uiQueue,
                                SniffCallback(Some(ListItem(nextUid, SniffedItem)), M_Success))
                         /\ nextUid' = nextUid + 1
                      \/ /\ uiQueue' = Append(uiQueue, SniffCallback(None, M_Timeout))
                         /\ UNCHANGED nextUid
              ELSE UNCHANGED <<uiQueue, nextUid>>
    /\ UNCHANGED <<stop_event, threadLocals, data_list, btn_start, btn_stop, stopSeq,
                   active_downloads, dlEvents, dl, strayCancel>>

(***************************************************************************)
(* The App and its sniff and batch jobs: the window as constructed, the    *)
(* handlers that start and stop jobs, the jobs' reads of the signal.       *)
(***************************************************************************)
InitJobs ==
    /\ stop_event = FALSE
    /\ NoCall
    /\ NoScan
    /\ NoSniffJob
    /\ NoBatch
    /\ NoApp

NextJobs ==
    \/ ImportJson \/ StartSniff \/ StopSniff \/ CheckValiditySelected \/ RepairSelected
    \/ JobPoll \/ JobEnd \/ RunOnSniffResult

SpecJobs == InitJobs /\ [][NextJobs]_vars

(***************************************************************************)
(* The App and its downloads.  No sniff or batch job runs; the stop        *)
(* control is as a repair job leaves it, enabled (line 1140 enables it and *)
(* no status text disables it again).                                      *)
(***************************************************************************)
InitDownloads ==
    /\ stop_event = FALSE
    /\ NoCall
    /\ NoScan
    /\ NoSniffJob
    /\ NoBatch
    /\ data_list = <<>>
    /\ nextUid = 1
    /\ btn_start = "normal"
    /\ btn_stop = "normal"
    /\ uiQueue = <<>>
    /\ jobs = <<>>
    /\ stopSeq = 0
    /\ active_downloads = <<>>
    /\ dlEvents = <<>>
    /\ dl = <<>>
    /\ strayCancel = FALSE

NextDownloads ==
    \/ ImportJson \/ UpdateTitle \/ DeleteSelected
    \/ DownloadSelected \/ StopDownloadSelected \/ StopSniff
    \/ RunRowUpdate \/ RunUpdateProgress
    \/ DlHook \/ DlEngineFails \/ DlReturns

SpecDownloads == InitDownloads /\ [][NextDownloads]_vars

(***************************************************************************)
(* One download: the App right after download_selected on the one row of   *)
(* its list, the thread it started, the stop of that row, the callbacks.   *)
(***************************************************************************)
DownloadableItems == {ListItem(1, m) : m \in {x \in ImportableItems : x.m3u8 # <<>>}}

InitTask ==
    /\ stop_event = FALSE
    /\ NoCall
    /\ NoScan
    /\ NoSniffJob
    /\ NoBatch
    /\ data_list \in {<<data>> : data \in DownloadableItems}
    /\ nextUid = 2
    /\ btn_start = "normal"
    /\ btn_stop = "disabled"
    /\ jobs = <<>>
    /\ stopSeq = 0
    /\ strayCancel = FALSE
    /\ LET st == DownloadLoop(<<1>>, 1, [active |-> <<>>, events |-> <<>>,
                                         threads |-> <<>>, queue |-> <<>>])
       IN  /\ active_downloads = st.active
           /\ dlEvents = st.events
           /\ dl = st.threads
           /\ uiQueue = st.queue

NextTask ==
    \/ DlHook \/ DlEngineFails \/ DlReturns
    \/ StopDownloadSelected \/ RunRowUpdate \/ RunUpdateProgress

SpecTask == InitTask /\ [][NextTask]_vars

(***************************************************************************)
(* Claims about the signal of the sniff and batch jobs (SpecJobs).         *)
(***************************************************************************)
\* C2: a job's cancellation signal, once set, stays set for as long as that job
\* runs: no job reads its signal unset after the signal was set during its run.
C2_SignalStaysSetWhileJobRuns ==
    \A j \in 1..Len(jobs) : ~jobs[j].missed

\* C3: every sniff and batch job owns a signal of its own, so one setting of a
\* signal stops at most one job: no two jobs are stopped by the same setting.
C3_OneStopStopsOneJob ==
    \A a, b \in 1..Len(jobs) :
        (a # b /\ jobs[a].stoppedBy # 0) => jobs[a].stoppedBy # jobs[b].stoppedBy

(***************************************************************************)
(* Claims about the downloads of the App (SpecDownloads).                  *)
(***************************************************************************)
\* The progress callbacks of thread j that the UI thread has not run yet.
PendingReports(j) ==
    {n \in 1..Len(uiQueue) : uiQueue[n].kind = "progress" /\ uiQueue[n].title = dl[j].title}

\* C4: stopping the download of one list item sets only that download's signal: no
\* stop of a row sets the signal of a running download of a different item, and
\* stopping a sniff or batch job sets the signal of no download.
C4_StopReachesOnlyItsOwnDownload ==
    ~strayCancel

\* C5: the active-download table holds an entry exactly while a download job is in
\* flight: every entry belongs to a download job that was started, and once a job
\* has terminated and its reports have been handled its entry is gone.
C5_EntryExactlyWhileInFlight ==
    /\ \A n \in 1..Len(active_downloads) :
           \E j \in 1..Len(dl) : dl[j].ev = active_downloads[n][2]
    /\ \A j \in 1..Len(dl) :
           (dl[j].pc = "done" /\ PendingReports(j) = {}) =>
               \A n \in 1..Len(active_downloads) : active_downloads[n][2] # dl[j].ev

(***************************************************************************)
(* Claims about one download job (SpecTask).                               *)
(***************************************************************************)
\* C6: an aborted download reports exactly one sentinel, -1 if and only if the abort
\* came from the signal observed inside the hook and -2 for every other engine
\* failure, and a job that has reported a sentinel has ended.
C6_SentinelTellsCauseOfAbort ==
    \A j \in 1..Len(dl) :
        /\ dl[j].abort = "cancel" => dl[j].sentinels = <<V_Cancelled>>
        /\ dl[j].abort = "engine" => dl[j].sentinels = <<V_Failed>>
        /\ dl[j].abort = "none" => dl[j].sentinels = <<>>
        /\ dl[j].sentinels # <<>> => dl[j].pc = "done"

\* C7: once a download's signal is set, the next event the engine delivers aborts
\* the transfer from inside the hook: no hook call that finds the signal set gives
\* progress_callback a percentage or 100, and a job whose signal is set and that
\* is still running has had no event delivered since.
C7_NoProgressForwardedOnceSet ==
    \A j \in 1..Len(dl) :
        /\ ~dl[j].fwdAfterSet
        /\ dl[j].abort = "cancel" =>
               /\ dlEvents[dl[j].ev].set
               /\ dl[j].pc = "done"
               /\ dl[j].sentinels = <<V_Cancelled>>

C7_Witness ==
    \E j \in 1..Len(dl) :
        /\ dl[j].abort = "cancel"
        /\ \E n \in 1..Len(uiQueue) : uiQueue[n] = ProgressCallback(dl[j].title, V_Cancelled)
        /\ \E n \in 1..Len(uiQueue) :
               /\ uiQueue[n].kind = "progress"
               /\ uiQueue[n].val = F_num(5000)

(***************************************************************************)
(* Claims about what a sniff job stores (SpecSniff).                       *)
(***************************************************************************)
\* The request's own headers, and after them a Referer holding documentURL when
\* the request had no key "Referer" and no key "referer".
CapturedOf(e) ==
    IF \E n \in 1..Len(e.headers) : e.headers[n][1] \in {K_Referer, K_referer}
    THEN e.headers
    ELSE Append(e.headers, <<K_Referer, e.doc>>)

\* C11: the headers a scan returns with an accepted URL are the captured headers of
\* that very request (with the Referer synthesized from documentURL when it had
\* none), not the resolved headers given to the classifier, and they are what a
\* successful sniff puts on the MediaItem.
C11_ReturnedHeadersAreTheCapturedOnes ==
    /\ found_m3u8 # None =>
           /\ lastProbe # None
           /\ captured_headers = CapturedOf(lastProbe[1].entry)
    /\ (ScanDone /\ ScanReturned.url # None) =>
           /\ lastProbe # None
           /\ ScanReturned.url = Some(lastProbe[1].entry.url)
           /\ ScanReturned.headers = Some(CapturedOf(lastProbe[1].entry))
           /\ ScanReturned.headers # Some(lastProbe[1].headers)
           /\ \A n \in 1..Len(sniffCalls) :
                  sniffCalls[n].item # None =>
                      sniffCalls[n].item[1].headers = CapturedOf(lastProbe[1].entry)

C11_Witness ==
    /\ sniffPc = "done"
    /\ ItemReported
    /\ lastProbe # None
    /\ lastProbe[1].entry.headers = H_noReferer
    /\ HasKey(sniffCalls[1].item[1].headers, K_Referer)

(***************************************************************************)
(* check_validity_thread, called with any list of (idx, item) pairs within *)
(* the bound; idx is the item's place in the list.                         *)
(***************************************************************************)
MaxBatchItems == 2

ST_Checking == "checking"
ST_Valid == "valid"
ST_Invalid == "invalid"
ST_ConnFailed == "connection failed"

\* The items a batch may be given: complete, without original_url, and (for the
\* thread on its own) without m3u8.
BatchItems ==
    {MediaItem(T_A, u, o, BaselineHeaders, TRUE, Status(ST_OK)) :
        u \in {U_main, <<>>}, o \in {U_page, <<>>}}

ItemLists ==
    UNION {{[n \in 1..k |-> <<n, its[n]>>] : its \in [1..k -> BatchItems]} :
              k \in 1..MaxBatchItems}

\* log_callback("check of n links started"), before the loop
ValStart ==
    /\ batchPc = "start"
    /\ logged' = logged \cup {"validity started"}
    /\ batchPc' = "top"
    /\ UNCHANGED <<stop_event, scanVars, stopPreAccept, sniffVars, items, cur, rowCalls,
                   did, appVars, fnVars>>

\* ValTop without the test of the signal.
ValTop_NoStopTest ==
    /\ batchPc = "top"
    /\ IF cur > Len(items)
       THEN /\ batchPc' = "end"
            /\ UNCHANGED <<cur, rowCalls>>
       ELSE IF items[cur][2].m3u8 = <<>>
       THEN /\ cur' = cur + 1
            /\ UNCHANGED <<batchPc, rowCalls>>
       ELSE /\ rowCalls' = Append(rowCalls,
                               RowCallback(items[cur][1], Status(ST_Checking), None, None))
            /\ batchPc' = "probe"
            /\ UNCHANGED cur
    /\ UNCHANGED <<stop_event, scanVars, logged, stopPreAccept, sniffVars, items, did, appVars, fnVars>>

\* ValTop with the interim row update issued before the test of the manifest URL.
ValTop_UpdateBeforeTest ==
    /\ batchPc = "top"
    /\ IF cur > Len(items) \/ stop_event
       THEN /\ batchPc' = "end"
            /\ UNCHANGED <<cur, rowCalls>>
       ELSE /\ rowCalls' = Append(rowCalls,
                               RowCallback(items[cur][1], Status(ST_Checking), None, None))
            /\ IF items[cur][2].m3u8 = <<>>
               THEN /\ cur' = cur + 1
                    /\ UNCHANGED batchPc
               ELSE /\ batchPc' = "probe"
                    /\ UNCHANGED cur
    /\ UNCHANGED <<stop_event, scanVars, logged, stopPreAccept, sniffVars, items, did, appVars, fnVars>>

\* for idx, item in items_to_check: the stop test, the test of the manifest URL,
\* update_row_callback(idx, "checking", None)
ValTop ==
    /\ batchPc = "top"
    /\ IF cur > Len(items) \/ stop_event
       THEN /\ batchPc' = "end"
            /\ UNCHANGED <<cur, rowCalls>>
       ELSE IF items[cur][2].m3u8 = <<>>
       THEN /\ cur' = cur + 1
            /\ UNCHANGED <<batchPc, rowCalls>>
       ELSE /\ rowCalls' = Append(rowCalls,
                               RowCallback(items[cur][1], Status(ST_Checking), None, None))
            /\ batchPc' = "probe"
            /\ UNCHANGED cur
    /\ UNCHANGED <<stop_event, scanVars, logged, stopPreAccept, sniffVars, items, did, appVars, fnVars>>

\* check_is_main_video(url, req_headers) and the row update with its verdict, or
\* with "connection failed" when the try block raises; time.sleep(0.1)
ValProbe ==
    /\ batchPc = "probe"
    /\ did' = did \cup {<<cur, "classify">>}
    /\ \E text \in {IF v.is_main THEN ST_Valid ELSE ST_Invalid : v \in ProbeVerdicts}
                      \cup {ST_ConnFailed} :
           rowCalls' = Append(rowCalls, RowCallback(items[cur][1], Status(text), None, None))
    /\ nClassify' = nClassify + 1
    /\ cur' = cur + 1
    /\ batchPc' = "top"
    /\ UNCHANGED <<stop_event, scanPc, max_wait, i, logs, pos, found_m3u8, captured_headers,
                   valid_reason, scanRet, nDrain, nSleep, probed, lastProbe, stopAtStart,
                   onlyExcluded, sawEntry, acceptIter, logged, stopPreAccept, sniffVars,
                   items, appVars, fnVars>>

\* log_callback("check finished")
ValEnd ==
    /\ batchPc = "end"
    /\ logged' = logged \cup {"validity finished"}
    /\ batchPc' = "done"
    /\ UNCHANGED <<stop_event, scanVars, stopPreAccept, sniffVars, items, cur, rowCalls,
                   did, appVars, fnVars>>

InitValidity ==
    /\ stop_event = FALSE
    /\ NoCall
    /\ NoScan
    /\ NoSniffJob
    /\ NoApp
    /\ batchPc = "start"
    /\ items \in ItemLists
    /\ cur = 1
    /\ rowCalls = <<>>
    /\ did = {}

NextValidity == ValStart \/ ValTop \/ ValProbe \/ ValEnd \/ SetStop

SpecValidity == InitValidity /\ [][NextValidity]_vars

\* The calls of update_row_callback made for the item at place n.
RowCallsFor(n) == SelectSeq(rowCalls, LAMBDA c : c.idx = items[n][1])

\* C13: a validity batch skips every item with an empty manifest URL with no row
\* update and no classifier call for it, goes on to the remaining items, and logs
\* the completion at the end.
C13_EmptyManifestIsSkippedSilently ==
    /\ \A n \in 1..Len(items) :
           items[n][2].m3u8 = <<>> =>
               /\ RowCallsFor(n) = <<>>
               /\ <<n, "classify">> \notin did
    /\ batchPc = "done" =>
           /\ "validity finished" \in logged
           /\ ~stop_event =>
                  \A n \in 1..Len(items) :
                      items[n][2].m3u8 # <<>> => <<n, "classify">> \in did

C13_Witness ==
    /\ batchPc = "done"
    /\ ~stop_event
    /\ Len(items) = 2
    /\ items[1][2].m3u8 = <<>>
    /\ <<2, "classify">> \in did
    /\ "validity finished" \in logged

(***************************************************************************)
(* batch_repair_thread, called with any list of (idx, item) pairs within   *)
(* the bound and any hide_delay.  It uses the job variables driver,        *)
(* hide_delay, settleLeft, nLaunch, nQuit; sniffErr holds the text of an   *)
(* exception no except clause of the function has caught.                  *)
(***************************************************************************)
\* max_wait of a repair's scan: the bound stands for the 45 of line 554.
RepairMaxWait == 1

ST_Repairing == "repairing"
ST_NoOriginal == "no original url"
ST_Repaired == "repaired"
ST_Failed == "failed"
ST_RepairError == "repair error"

BatchEnded == batchPc \in {"done", "raised"}

\* The lists a repair is given: the thread reads title and original_url only, so
\* the items differ in original_url.
RepairLists == {l \in ItemLists : \A n \in 1..Len(l) : l[n][2].m3u8 # <<>>}

\* RepSettle whose except clause goes on with the next item (continue for break).
RepSettle_AbortsItemOnly ==
    /\ batchPc = "settle"
    /\ IF settleLeft = 0
       THEN /\ batchPc' = "minimize"
            /\ UNCHANGED <<settleLeft, cur, did>>
       ELSE IF stop_event
       THEN /\ batchPc' = "top"
            /\ cur' = cur + 1
            /\ did' = did \cup {<<cur, "abort">>}
            /\ UNCHANGED settleLeft
       ELSE /\ settleLeft' = settleLeft - 1
            /\ UNCHANGED <<batchPc, cur, did>>
    /\ UNCHANGED <<stop_event, scanVars, logged, stopPreAccept, sniffPc, debug, hide_delay,
                   target_url, driver, raw_title, sniffErr, sniffCalls, nLaunch, nQuit,
                   titleReads, items, rowCalls, appVars, fnVars>>

\* RepNavigate whose failure ends the batch after the row update.
RepNavigate_ErrorEndsBatch ==
    /\ batchPc = "navigate"
    /\ did' = did \cup {<<cur, "navigate">>}
    /\ \/ /\ settleLeft' = hide_delay
          /\ batchPc' = "settle"
          /\ logged' = logged \cup {"repairing"}
          /\ UNCHANGED <<cur, rowCalls>>
       \/ /\ rowCalls' = Append(rowCalls,
                             RowCallback(items[cur][1], Status(ST_RepairError), None, None))
          /\ logged' = logged \cup {"repairing", "repair error"}
          /\ batchPc' = "finally"
          /\ UNCHANGED <<cur, settleLeft>>
    /\ UNCHANGED <<stop_event, scanVars, stopPreAccept, sniffPc, debug, hide_delay,
                   target_url, driver, raw_title, sniffErr, sniffCalls, nLaunch, nQuit,
                   titleReads, items, appVars, fnVars>>

\* RepFinally without the call of driver.quit().
RepFinally_NoQuit ==
    /\ batchPc = "finally"
    /\ logged' = logged \cup {"repair finished"}
    /\ batchPc' = IF sniffErr # <<>> THEN "raised" ELSE "done"
    /\ UNCHANGED <<stop_event, scanVars, stopPreAccept, sniffVars, items, cur, rowCalls,
                   did, appVars, fnVars>>

\* RepTop without the test of original_url.
RepTop_NoOriginalTest ==
    /\ batchPc = "top"
    /\ IF cur > Len(items) \/ stop_event
       THEN /\ batchPc' = "finally"
            /\ UNCHANGED rowCalls
       ELSE /\ rowCalls' = Append(rowCalls,
                               RowCallback(items[cur][1], Status(ST_Repairing), None, None))
            /\ batchPc' = "navigate"
    /\ UNCHANGED <<stop_event, scanVars, logged, stopPreAccept, sniffVars, items, cur,
                   did, appVars, fnVars>>

\* driver = create_driver(settings): no except clause stands between a failure
\* and the caller, only the finally.
RepLaunch ==
    /\ batchPc = "launch"
    /\ \/ /\ driver' = TRUE
          /\ nLaunch' = nLaunch + 1
          /\ batchPc' = "top"
          /\ UNCHANGED sniffErr
       \/ \E m \in ErrMsgs :
            /\ sniffErr' = m
            /\ batchPc' = "finally"
            /\ UNCHANGED <<driver, nLaunch>>
    /\ UNCHANGED <<stop_event, scanVars, logged, stopPreAccept, sniffPc, debug, hide_delay,
                   target_url, settleLeft, raw_title, sniffCalls, nQuit, titleReads,
                   items, cur, rowCalls, did, appVars, fnVars>>

\* for idx, item in items_to_repair: the stop test, update_row_callback(idx,
\* "repairing"), and for an item without original_url the row update "no original
\* url", the log and continue
RepTop ==
    /\ batchPc = "top"
    /\ IF cur > Len(items) \/ stop_event
       THEN /\ batchPc' = "finally"
            /\ UNCHANGED <<cur, rowCalls, logged>>
       ELSE IF items[cur][2].original_url = <<>>
       THEN /\ rowCalls' = rowCalls \o
                    <<RowCallback(items[cur][1], Status(ST_Repairing), None, None),
                      RowCallback(items[cur][1], Status(ST_NoOriginal), None, None)>>
            /\ logged' = logged \cup {"repair impossible"}
            /\ cur' = cur + 1
            /\ UNCHANGED batchPc
       ELSE /\ rowCalls' = Append(rowCalls,
                               RowCallback(items[cur][1], Status(ST_Repairing), None, None))
            /\ batchPc' = "navigate"
            /\ UNCHANGED <<cur, logged>>
    /\ UNCHANGED <<stop_event, scanVars, stopPreAccept, sniffVars, items, did, appVars, fnVars>>

\* driver.get(original_url); a failure is caught by the except clause of the
\* item: row update "error", log, next item
RepNavigate ==
    /\ batchPc = "navigate"
    /\ did' = did \cup {<<cur, "navigate">>}
    /\ \/ /\ settleLeft' = hide_delay
          /\ batchPc' = "settle"
          /\ logged' = logged \cup {"repairing"}
          /\ UNCHANGED <<cur, rowCalls>>
       \/ /\ rowCalls' = Append(rowCalls,
                             RowCallback(items[cur][1], Status(ST_RepairError), None, None))
          /\ logged' = logged \cup {"repairing", "repair error"}
          /\ cur' = cur + 1
          /\ batchPc' = "top"
          /\ UNCHANGED settleLeft
    /\ UNCHANGED <<stop_event, scanVars, stopPreAccept, sniffPc, debug, hide_delay,
                   target_url, driver, raw_title, sniffErr, sniffCalls, nLaunch, nQuit,
                   titleReads, items, appVars, fnVars>>

\* for _ in range(hide_delay): raise Exception("Stop") if the signal is set, which
\* the except clause turns into break; else time.sleep(1)
RepSettle ==
    /\ batchPc = "settle"
    /\ IF settleLeft = 0
       THEN /\ batchPc' = "minimize"
            /\ UNCHANGED <<settleLeft, cur, did>>
       ELSE IF stop_event
       THEN /\ batchPc' = "finally"
            /\ did' = did \cup {<<cur, "abort">>}
            /\ UNCHANGED <<settleLeft, cur>>
       ELSE /\ settleLeft' = settleLeft - 1
            /\ UNCHANGED <<batchPc, cur, did>>
    /\ UNCHANGED <<stop_event, scanVars, logged, stopPreAccept, sniffPc, debug, hide_delay,
                   target_url, driver, raw_title, sniffErr, sniffCalls, nLaunch, nQuit,
                   titleReads, items, rowCalls, appVars, fnVars>>

\* driver.minimize_window() (a failure is swallowed); then
\* core_sniff_logic(driver, stop_event, log_callback, max_wait=45) is entered
RepEnterScan ==
    /\ batchPc = "minimize"
    /\ batchPc' = "scan"
    /\ did' = did \cup {<<cur, "scan">>}
    /\ ScanEntered(RepairMaxWait)
    /\ UNCHANGED <<stop_event, logged, stopPreAccept, sniffVars, items, cur, rowCalls,
                   appVars, fnVars>>

\* if new_m3u8 and new_headers is not None: row update "repaired" with the new URL
\* and headers; else row update "failed"
RepReport ==
    /\ batchPc = "scan"
    /\ scanPc = "done"
    /\ LET new_m3u8 == scanRet[1].url
           new_headers == scanRet[1].headers
       IN  IF new_m3u8 # None /\ new_m3u8[1] # <<>> /\ new_headers # None
           THEN /\ rowCalls' = Append(rowCalls,
                       RowCallback(items[cur][1], Status(ST_Repaired), new_m3u8, new_headers))
                /\ logged' = logged \cup {"repair success"}
           ELSE /\ rowCalls' = Append(rowCalls,
                       RowCallback(items[cur][1], Status(ST_Failed), None, None))
                /\ UNCHANGED logged
    /\ cur' = cur + 1
    /\ batchPc' = "top"
    /\ UNCHANGED <<stop_event, scanVars, stopPreAccept, sniffVars, items, did, appVars, fnVars>>

\* finally: driver.quit() if driver (a failure is swallowed); log "repair task
\* finished"; an exception that reached the finally leaves the function after it
RepFinally ==
    /\ batchPc = "finally"
    /\ nQuit' = IF driver THEN nQuit + 1 ELSE nQuit
    /\ logged' = logged \cup {"repair finished"}
    /\ batchPc' = IF sniffErr # <<>> THEN "raised" ELSE "done"
    /\ UNCHANGED <<stop_event, scanVars, stopPreAccept, sniffPc, debug, hide_delay,
                   target_url, driver, settleLeft, raw_title, sniffErr, sniffCalls, nLaunch,
                   titleReads, items, cur, rowCalls, did, appVars, fnVars>>

RepStep ==
    \/ RepLaunch \/ RepTop \/ RepNavigate \/ RepSettle \/ RepEnterScan \/ RepReport
    \/ RepFinally

InitRepair ==
    /\ stop_event = FALSE
    /\ NoCall
    /\ NoScan
    /\ sniffPc = "none"
    /\ debug = FALSE
    /\ hide_delay \in 0..MaxHideDelay
    /\ target_url = <<>>
    /\ driver = FALSE
    /\ settleLeft = 0
    /\ raw_title = <<>>
    /\ sniffErr = <<>>
    /\ sniffCalls = <<>>
    /\ nLaunch = 0
    /\ nQuit = 0
    /\ titleReads = <<>>
    /\ NoApp
    /\ batchPc = "launch"
    /\ items \in RepairLists
    /\ cur = 1
    /\ rowCalls = <<>>
    /\ did = {}

NextRepair == RepStep \/ ScanStep \/ SetStop

SpecRepair == InitRepair /\ [][NextRepair]_vars

(***************************************************************************)
(* Claims about the repair batch (SpecRepair).                             *)
(***************************************************************************)
\* C12: a repair batch launches one browser session for the whole batch, none per
\* item, and closes it exactly once, when the batch ends, however it ends; while
\* items are being processed the session is open.
C12_OneSessionPerRepairBatch ==
    /\ nLaunch <= 1
    /\ driver <=> (nLaunch = 1)
    /\ ~BatchEnded => nQuit = 0
    /\ BatchEnded => nQuit = nLaunch
    /\ did # {} => nLaunch = 1

C12_Witness ==
    /\ batchPc = "done"
    /\ Len(items) = 2
    /\ {<<1, "navigate">>, <<2, "navigate">>} \subseteq did
    /\ nLaunch = 1
    /\ nQuit = 1

\* C15: an item without original_url is never repaired: the session is not
\* navigated and no scan is run for it, the row update "no original url" reports
\* it, and the batch goes on with the next item.
C15_NoOriginalUrlIsReportedNotRepaired ==
    /\ \A n \in 1..Len(items) :
           items[n][2].original_url = <<>> =>
               /\ <<n, "navigate">> \notin did
               /\ <<n, "scan">> \notin did
               /\ n < cur =>
                      /\ Len(RowCallsFor(n)) = 2
                      /\ RowCallsFor(n)[2].status = Status(ST_NoOriginal)
                      /\ RowCallsFor(n)[2].new_url = None
    /\ (batchPc = "done" /\ ~stop_event) =>
           \A n \in 1..Len(items) :
               items[n][2].original_url # <<>> => <<n, "navigate">> \in did

C15_Witness ==
    /\ batchPc = "done"
    /\ ~stop_event
    /\ Len(items) = 2
    /\ items[1][2].original_url = <<>>
    /\ RowCallsFor(1)[2].status = Status(ST_NoOriginal)
    /\ <<2, "navigate">> \in did

\* C16: an exception raised in a job, the failure to launch the browser included,
\* is caught at the job boundary and logged as an error, and never leaves the
\* worker.
C16_NoExceptionLeavesTheWorker ==
    /\ batchPc # "raised"
    /\ (BatchEnded /\ sniffErr # <<>>) => "repair error" \in logged

\* The status texts that close what an interim row update opened.
TerminalTexts == {ST_NoOriginal, ST_Repaired, ST_Failed, ST_RepairError,
                  ST_Valid, ST_Invalid, ST_ConnFailed}

InterimTexts == {ST_Repairing, ST_Checking}

\* C17: when a batch job has ended, every interim row update is followed by a
\* terminal row update of the same item.
C17_EveryInterimUpdateIsClosed ==
    BatchEnded =>
        \A k \in 1..Len(rowCalls) :
            rowCalls[k].status.text \in InterimTexts =>
                \E m \in (k + 1)..Len(rowCalls) :
                    /\ rowCalls[m].idx = rowCalls[k].idx
                    /\ rowCalls[m].status.text \in TerminalTexts

(***************************************************************************)
(* Claims about the list of items (SpecJobs).                              *)
(***************************************************************************)
\* C14: every item of data_list has a non-empty m3u8, whatever sniff results,
\* imports, row updates, title edits and deletions have been applied.
C14_StoredManifestUrlNeverEmpty ==
    \A n \in 1..Len(data_list) : data_list[n].m3u8 # <<>>

(***************************************************************************)
(* Claims about the session of a sniff job and its report (SpecSniff).     *)
(***************************************************************************)
\* driver.get(target_url) raised: the load was logged, no title was ever read, and
\* an exception text is held.
NavigateFailed == "sniff load" \in logged /\ titleReads = <<>> /\ sniffErr # <<>>

ErrorReported == \E n \in 1..Len(sniffCalls) : sniffCalls[n].msg \in ErrMsgs

\* C18: a failure of a session-control call is never fatal to the job: a sniff job
\* whose navigate call failed does not end in the Error outcome, the callback
\* given (None, text of the exception).
C18_NavigateFailureIsNotFatal ==
    NavigateFailed => ~ErrorReported

\* C19: in a sniff job a session that was launched is closed on every exit path,
\* once, before the function returns, and not before; a job that launched none
\* closes none.
C19_LaunchedSessionIsAlwaysClosed ==
    /\ nLaunch <= 1
    /\ driver <=> (nLaunch = 1)
    /\ ~SniffDone => nQuit = 0
    /\ SniffDone => nQuit = nLaunch

C19_Witness ==
    /\ SniffDone
    /\ stop_event
    /\ sniffCalls = <<>>
    /\ nLaunch = 1
    /\ nQuit = 1

\* The title the item is due, from the two reads of driver.title: the second one
\* stripped, else the first one stripped, else a placeholder.
TitleDue ==
    LET first == IF titleReads[1] = None THEN T_UnknownTitle
                 ELSE IF Strip(titleReads[1][1]) # <<>> THEN Strip(titleReads[1][1])
                 ELSE T_UnnamedPage
    IN  IF titleReads[2] # None /\ Strip(titleReads[2][1]) # <<>>
        THEN Strip(titleReads[2][1])
        ELSE first

\* The scan of the job has returned an accepted URL.
ScanAccepted == sniffPc # "none" /\ ScanDone /\ ScanReturned.url # None

\* C20: when the scan of a sniff job has accepted a candidate, the job calls the
\* result callback exactly once, with "Success" and an item holding the scan's URL
\* and headers, the target URL as original_url, checked true, status "OK", and as
\* title the page title read after the scan, else the one read after the load, else
\* a placeholder.
C20_AcceptedScanIsReportedOnce ==
    ScanAccepted =>
        IF sniffPc \in {"finally", "done"}
        THEN sniffCalls =
                 <<SniffCall(Some(MediaItem(TitleDue, ScanReturned.url[1], target_url,
                                            ScanReturned.headers[1], TRUE, Status(ST_OK))),
                             M_Success)>>
        ELSE sniffCalls = <<>>

C20_Witness ==
    /\ SniffDone
    /\ ScanAccepted
    /\ Len(sniffCalls) = 1
    /\ sniffCalls[1].msg = M_Success
    /\ titleReads = <<Some(<<" ", "U">>), Some(<<" ">>)>>
    /\ sniffCalls[1].item[1].title = <<"U">>

(***************************************************************************)
(* get_headers called on its own, with any header map within the bound and *)
(* any of the referer URLs below.                                          *)
(***************************************************************************)
MaxHeaders == 2

K_REFERER == <<"R", "E", "F", "E", "R", "E", "R">>
K_origin == <<"o", "r", "i", "g", "i", "n">>
K_cookie == <<"c", "o", "o", "k", "i", "e">>
K_accept == <<"a", "c", "c", "e", "p", "t">>
K_XReq == <<"X", "-", "R", "e", "q">>

U_withPort == <<"h", "t", "t", "p", ":", "/", "/", "p", ":", "8", "/", "x">>
U_withUser == <<"h", "t", "t", "p", ":", "/", "/", "u", "@", "p", "/", "x">>
U_relative == <<"p", "/", "x">>

HeaderPairs ==
    {<<k, v>> : k \in {K_Referer, K_referer, K_REFERER, K_origin, K_cookie, K_accept, K_XReq},
                v \in {<<"a">>, <<"b">>}}

\* dicts: the keys are distinct as strings (they may be equal up to case).
HeaderMaps ==
    UNION {{d \in [1..n -> HeaderPairs] : \A a, b \in 1..n : a # b => d[a][1] # d[b][1]} :
              n \in 0..MaxHeaders}

\* item_headers: None, {} or a dict; referer_url: None, "" or a URL.
HeaderArgs == {None} \cup {Some(d) : d \in HeaderMaps}

RefererArgs == {None, Some(<<>>), Some(U_page), Some(U_withPort), Some(U_withUser),
                Some(U_relative)}

\* h = get_headers(item_headers, referer_url)
CallGetHeaders ==
    /\ fnCall # <<>>
    /\ fnCall[1].fn = "get_headers"
    /\ fnRet = None
    /\ fnRet' = Some(GetHeaders(fnCall[1].item_headers, fnCall[1].referer_url))
    /\ UNCHANGED <<stop_event, scanVars, logged, stopPreAccept, sniffVars, batchVars,
                   appVars, fnCall>>

InitHeaders ==
    /\ stop_event = FALSE
    /\ NoScan
    /\ NoSniffJob
    /\ NoBatch
    /\ NoApp
    /\ fnCall \in {Some([fn |-> "get_headers", item_headers |-> h, referer_url |-> r]) :
                      h \in HeaderArgs, r \in RefererArgs}
    /\ fnRet = None

NextHeaders == CallGetHeaders

SpecHeaders == InitHeaders /\ [][NextHeaders]_vars

(***************************************************************************)
(* Claims about get_headers (SpecHeaders).                                 *)
(***************************************************************************)
HeadersReturned == fnCall # <<>> /\ fnCall[1].fn = "get_headers" /\ fnRet # None

\* The entries of the header map d whose key equals key up to letter case.
Variants(d, key) == {n \in 1..Len(d) : Lower(d[n][1]) = Lower(key)}

\* The value of the last such entry, in the map's order.
LastVariant(d, key) == d[CHOOSE n \in Variants(d, key) : \A m \in Variants(d, key) : m <= n][2]

\* C21: for a captured header map holding a key equal to "Referer" up to letter
\* case, and any referer URL, the returned Referer is the map's value, and the
\* referer URL gives neither the Referer nor an Origin.
C21_CapturedRefererWins ==
    (/\ HeadersReturned
     /\ fnCall[1].item_headers # None
     /\ Variants(fnCall[1].item_headers[1], K_Referer) # {}) =>
        LET H == fnCall[1].item_headers[1]
            h == fnRet[1]
        IN  /\ HasKey(h, K_Referer)
            /\ DictGet(h, K_Referer) = LastVariant(H, K_Referer)
            /\ HasKey(h, K_Origin) =>
                   /\ Variants(H, K_Origin) # {}
                   /\ DictGet(h, K_Origin) = LastVariant(H, K_Origin)

C21_Witness ==
    /\ HeadersReturned
    /\ fnCall[1].item_headers = Some(<< <<K_REFERER, <<"a">>>> >>)
    /\ fnCall[1].referer_url = Some(U_page)
    /\ DictGet(fnRet[1], K_Referer) = <<"a">>
    /\ ~HasKey(fnRet[1], K_Origin)

\* C22: whenever a captured header map is given, an empty one included, the
\* referer URL is ignored: the result holds no Referer and no Origin but the map's.
C22_RefererUrlIgnoredWheneverMapGiven ==
    (HeadersReturned /\ fnCall[1].item_headers # None) =>
        \A key \in {K_Referer, K_Origin} :
            HasKey(fnRet[1], key) => Variants(fnCall[1].item_headers[1], key) # {}

\* host[:port] of a URL: the netloc after its last "@".
HostPort(r) ==
    LET nl == UrlNetloc(r)
        ats == {n \in 1..Len(nl) : nl[n] = "@"}
    IN  IF ats = {} THEN nl
        ELSE SubSeq(nl, (CHOOSE n \in ats : \A m \in ats : m <= n) + 1, Len(nl))

\* C23: with no captured headers and a referer URL R that has a scheme and a host,
\* the result is the baseline User-Agent and Accept, Referer = R as given, and
\* Origin = scheme "://" host, with the port when R has one.
C23_OriginIsSchemeAndHost ==
    (/\ HeadersReturned
     /\ fnCall[1].item_headers = None
     /\ fnCall[1].referer_url # None
     /\ UrlScheme(fnCall[1].referer_url[1]) # <<>>
     /\ HostPort(fnCall[1].referer_url[1]) # <<>>) =>
        LET R == fnCall[1].referer_url[1]
        IN  DictEq(fnRet[1],
                   BaselineHeaders \o
                   << <<K_Referer, R>>,
                      <<K_Origin, UrlScheme(R) \o <<":", "/", "/">> \o HostPort(R)>> >>)

\* C24: for a captured header map, the keys of the result are among User-Agent,
\* Accept, Referer, Origin, Cookie, Authorization in this spelling, User-Agent and
\* Accept are always there, every allow-listed key the map holds under any letter
\* case carries the map's value, and no other key of the map appears.
C24_OnlyAllowListedKeysSurvive ==
    (HeadersReturned /\ fnCall[1].item_headers # None) =>
        LET H == fnCall[1].item_headers[1]
            h == fnRet[1]
            allowed == {AllowList[n] : n \in 1..Len(AllowList)}
        IN  /\ \A n \in 1..Len(h) : h[n][1] \in allowed \cup {K_Accept}
            /\ \A a, b \in 1..Len(h) : a # b => h[a][1] # h[b][1]
            /\ HasKey(h, K_UserAgent)
            /\ HasKey(h, K_Accept)
            /\ DictGet(h, K_Accept) = V_AcceptAll
            /\ \A key \in allowed :
                   Variants(H, key) # {} =>
                       /\ HasKey(h, key)
                       /\ DictGet(h, key) = LastVariant(H, key)
            /\ H # <<>> =>
                   \A key \in allowed \ {K_UserAgent} :
                       HasKey(h, key) => Variants(H, key) # {}

C24_Witness ==
    /\ HeadersReturned
    /\ fnCall[1].item_headers = Some(<< <<K_cookie, <<"a">>>>, <<K_XReq, <<"b">>>> >>)
    /\ DictEq(fnRet[1], BaselineHeaders \o << <<K_Cookie, <<"a">>>> >>)

(***************************************************************************)
(* check_is_main_video called on its own: requests.get raises, or answers  *)
(* with any of the statuses and any body of at most MaxLines lines.        *)
(***************************************************************************)
MaxLines == 2

L_Extinf300 == S_EXTINF \o <<"3", "0", "0", ",">>
L_Extinf301 == S_EXTINF \o <<"3", "0", "1", ",">>
L_ExtinfInf == S_EXTINF \o <<"i", "n", "f", ",">>
L_Header == <<"#", "E", "X", "T", "M", "3", "U">>

BodyLines == {L_StreamInf, L_Extinf200_5, L_Extinf99_5, L_Extinf99_51, L_ExtinfBad,
              L_Extinf300, L_Extinf301, L_ExtinfInf, L_Header}

Bodies == UNION {[1..n -> BodyLines] : n \in 0..MaxLines}

Responses ==
    {[raises |-> TRUE, msg |-> <<"t", "o">>, status |-> 0, body |-> <<>>]}
        \cup {Http(s, b) : s \in {200, 404}, b \in Bodies}

\* is_main, reason = check_is_main_video(url, headers)
CallCheckIsMainVideo ==
    /\ fnCall # <<>>
    /\ fnCall[1].fn = "check_is_main_video"
    /\ fnRet = None
    /\ fnRet' = Some(CheckIsMainVideo(fnCall[1].resp))
    /\ UNCHANGED <<stop_event, scanVars, logged, stopPreAccept, sniffVars, batchVars,
                   appVars, fnCall>>

InitClassify ==
    /\ stop_event = FALSE
    /\ NoScan
    /\ NoSniffJob
    /\ NoBatch
    /\ NoApp
    /\ fnCall \in {Some([fn |-> "check_is_main_video", resp |-> r]) : r \in Responses}
    /\ fnRet = None

NextClassify == CallCheckIsMainVideo

SpecClassify == InitClassify /\ [][NextClassify]_vars

(***************************************************************************)
(* Claims about check_is_main_video (SpecClassify).                        *)
(***************************************************************************)
Classified == fnCall # <<>> /\ fnCall[1].fn = "check_is_main_video" /\ fnRet # None

\* The response is a 200 whose text holds the marker of a master playlist.
IsMaster(resp) ==
    /\ ~resp.raises
    /\ resp.status = 200
    /\ \E n \in 1..Len(resp.body) : Contains(resp.body[n], S_STREAM_INF)

\* The response is a 200 whose text does not hold it.
IsMediaPlaylist(resp) ==
    /\ ~resp.raises
    /\ resp.status = 200
    /\ \A n \in 1..Len(resp.body) : ~Contains(resp.body[n], S_STREAM_INF)

\* C25: a 200 response whose body holds "#EXT-X-STREAM-INF" is accepted with the
\* reason "Master Playlist", whatever #EXTINF lines and durations it holds.
C25_MasterPlaylistIsAccepted ==
    (Classified /\ IsMaster(fnCall[1].resp)) =>
        fnRet[1] = Verdict(TRUE, "Master Playlist", 0, <<>>)

C25_Witness ==
    /\ Classified
    /\ fnCall[1].resp = Http(200, <<L_Extinf99_5, L_StreamInf>>)
    /\ fnRet[1].is_main

\* The sum of the durations float() parses exceeds 300 seconds.
SumAbove300(body) ==
    LET total == TotalDuration(body, 1, F_num(0))
    IN  \/ total.kind = "inf"
        \/ total.kind = "num" /\ total.centi > 100 * MainThresholdSeconds

\* C26: a 200 response without the marker is accepted if and only if the sum of
\* its parseable #EXTINF durations is above 300 seconds.
C26_AcceptedIffSumAbove300 ==
    (Classified /\ IsMediaPlaylist(fnCall[1].resp)) =>
        (fnRet[1].is_main <=> SumAbove300(fnCall[1].resp.body))

\* C27: a verdict is always returned: a status other than 200 is rejected with the
\* reason "HTTP <status>" whatever the body holds, and an exception is rejected
\* with its message as the reason.
C27_AlwaysAVerdict ==
    Classified =>
        LET resp == fnCall[1].resp
        IN  /\ fnRet[1].is_main \in BOOLEAN
            /\ resp.raises => fnRet[1] = Verdict(FALSE, "exc", 0, resp.msg)
            /\ (~resp.raises /\ resp.status # 200) =>
                   fnRet[1] = Verdict(FALSE, "HTTP", resp.status, <<>>)
            /\ fnRet[1].reason.tag = "exc" => ~fnRet[1].is_main

C27_Witness ==
    /\ Classified
    /\ fnCall[1].resp = Http(404, <<L_StreamInf, L_Extinf301>>)
    /\ fnRet[1] = Verdict(FALSE, "HTTP", 404, <<>>)

(***************************************************************************)
(* Claims about the items of a repair batch (SpecRepair).                  *)
(***************************************************************************)
\* C28: a cancellation seen during the settle delay of an item ends the whole
\* batch: the loop is left at that item, which is not scanned, no later item gets
\* a row update, a navigation or a scan, and when the batch has ended the session
\* is closed and the end of the task is logged.
C28_StopWhileSettlingEndsTheBatch ==
    \A k \in 1..Len(items) :
        <<k, "abort">> \in did =>
            /\ batchPc \in {"finally", "done"}
            /\ cur = k
            /\ <<k, "scan">> \notin did
            /\ \A n \in (k + 1)..Len(items) :
                   /\ RowCallsFor(n) = <<>>
                   /\ \A what \in {"navigate", "scan", "abort"} : <<n, what>> \notin did
            /\ batchPc = "done" =>
                   /\ nQuit = 1
                   /\ "repair finished" \in logged

C28_Witness ==
    /\ batchPc = "done"
    /\ Len(items) = 2
    /\ items[2][2].original_url # <<>>
    /\ <<1, "abort">> \in did
    /\ nQuit = 1

\* C29: in a repair batch that is not cancelled, the items get their row updates
\* in the order given and one by one; an item whose navigation raised gets "error"
\* and one whose scan accepted nothing gets "failed", both without URL and headers,
\* and the batch goes on; an item whose scan accepted gets one "repaired" update
\* with the scan's URL and the captured headers.
C29_EachRepairedItemGetsItsOutcome ==
    ~stop_event =>
        /\ \A a, b \in 1..Len(rowCalls) : a < b => rowCalls[a].idx <= rowCalls[b].idx
        /\ \A n \in 1..Len(items) :
               n >= cur => Len(RowCallsFor(n)) <= 1
        /\ \A n \in 1..Len(items) :
               (n < cur /\ items[n][2].original_url # <<>>) =>
                   LET rc == RowCallsFor(n)
                   IN  /\ Len(rc) = 2
                       /\ rc[1] = RowCallback(items[n][1], Status(ST_Repairing), None, None)
                       /\ IF <<n, "scan">> \notin did
                          THEN rc[2] = RowCallback(items[n][1], Status(ST_RepairError),
                                                   None, None)
                          ELSE \/ rc[2] = RowCallback(items[n][1], Status(ST_Failed),
                                                      None, None)
                               \/ /\ rc[2].status = Status(ST_Repaired)
                                  /\ rc[2].new_url # None
                                  /\ rc[2].new_headers # None
        /\ (batchPc = "top" /\ cur > 1 /\ <<cur - 1, "scan">> \in did) =>
               rowCalls[Len(rowCalls)] =
                   IF ScanReturned.url # None
                   THEN RowCallback(items[cur - 1][1], Status(ST_Repaired), ScanReturned.url,
                                    Some(CapturedOf(lastProbe[1].entry)))
                   ELSE RowCallback(items[cur - 1][1], Status(ST_Failed), None, None)
        /\ batchPc = "done" => cur = Len(items) + 1

C29_Witness ==
    /\ batchPc = "done"
    /\ ~stop_event
    /\ Len(rowCalls) = 4
    /\ rowCalls[2].status = Status(ST_RepairError)
    /\ rowCalls[4].status = Status(ST_Repaired)
    /\ rowCalls[4].idx = 2
    /\ rowCalls[4].new_url = Some(U_main)

(***************************************************************************)
(* Claims about the order of a validity batch (SpecValidity).              *)
(***************************************************************************)
FinalTexts == {ST_Valid, ST_Invalid, ST_ConnFailed}

\* What holds of every state of a validity batch.
ValidityInOrder ==
    /\ \A a, b \in 1..Len(rowCalls) : a < b => rowCalls[a].idx <= rowCalls[b].idx
    /\ \A n \in 1..Len(items) :
           LET rc == RowCallsFor(n)
           IN  IF items[n][2].m3u8 = <<>> THEN rc = <<>>
               ELSE IF n < cur
               THEN /\ Len(rc) = 2
                    /\ rc[1] = RowCallback(items[n][1], Status(ST_Checking), None, None)
                    /\ rc[2].status.text \in FinalTexts
                    /\ rc[2].new_url = None
                    /\ <<n, "classify">> \in did
               ELSE IF n = cur /\ batchPc = "probe"
               THEN /\ rc = <<RowCallback(items[n][1], Status(ST_Checking), None, None)>>
                    /\ <<n, "classify">> \notin did
               ELSE /\ rc = <<>>
                    /\ <<n, "classify">> \notin did
    /\ nClassify = Cardinality(did)
    /\ batchPc = "start" => (logged = {} /\ rowCalls = <<>> /\ did = {})
    /\ batchPc # "start" => "validity started" \in logged
    /\ "validity finished" \in logged <=> batchPc = "done"

\* A step taken at an item boundary with the signal set leaves the loop and
\* updates and probes nothing.
StopEndsTheLoop ==
    (batchPc = "top" /\ stop_event /\ batchPc' # batchPc) =>
        /\ batchPc' = "end"
        /\ cur' = cur
        /\ rowCalls' = rowCalls
        /\ did' = did

\* C30: a validity batch takes its items in the order given; each item with a
\* manifest URL reached before the cancellation gets two row updates, "checking"
\* and then a final status, with one classifier call between them; once the signal
\* is seen at an item boundary nothing later is probed or updated; the start log
\* and the completion log bracket the batch, cancelled or not.
C30_ValidityBatchInOrder ==
    []ValidityInOrder /\ [][StopEndsTheLoop]_vars

C30_Witness ==
    /\ batchPc = "done"
    /\ stop_event
    /\ Len(items) = 2
    /\ items[2][2].m3u8 # <<>>
    /\ cur = 2
    /\ Len(rowCalls) = 2
    /\ rowCalls[2].status = Status(ST_Valid)
    /\ nClassify = 1
    /\ {"validity started", "validity finished"} \subseteq logged

(***************************************************************************)
(* Claims about the entries of a drained batch (SpecScan).                 *)
(***************************************************************************)
\* The entries before the place of the loop were all examined, the candidates
\* among them classified, and an accepted candidate is the entry at that place.
EntriesExaminedInOrder ==
    /\ scanPc = "entries" =>
           /\ found_m3u8 = None
           /\ probed = {n \in 1..(pos - 1) : logs[n] \in CandidateEntries}
    /\ found_m3u8 # None =>
           /\ scanPc = "after"
           /\ pos \in 1..Len(logs)
           /\ logs[pos] \in CandidateEntries
           /\ found_m3u8 = Some(logs[pos].url)
           /\ probed = {n \in 1..pos : logs[n] \in CandidateEntries}
           /\ acceptIter = i + 1

\* A turn of the entry loop at an entry either accepts it or goes on to the next
\* entry of the same batch; the scan leaves the loop only for the test that
\* follows it.
EntryNeverAborts ==
    (scanPc = "entries" /\ <<scanPc, pos>>' # <<scanPc, pos>>) =>
        /\ scanPc' \in {"entries", "after"}
        /\ pos <= Len(logs) =>
               \/ found_m3u8' # None
               \/ /\ scanPc' = "entries"
                  /\ pos' = pos + 1
                  /\ logs' = logs
        /\ (scanPc' = "after" /\ found_m3u8' = None) => pos > Len(logs)

\* C31: an entry that does not parse, and a candidate whose headers cannot be read
\* or whose classification fails, never ends the scan: the entries after it in the
\* same batch are examined in order, a candidate among them is accepted in that
\* iteration, and without one the scan goes on to the next iteration.
C31_MalformedEntryNeverAbortsScan ==
    []EntriesExaminedInOrder /\ [][EntryNeverAborts]_vars

C31_Witness ==
    /\ scanPc = "after"
    /\ found_m3u8 # None
    /\ pos = 2
    /\ logs[1] = MalformedEntry
    /\ acceptIter = 2

(***************************************************************************)
(* Claims about the signal set in the middle of a scan (SpecScan).         *)
(***************************************************************************)
\* The scan is at the head of its loop after at least one iteration, with the
\* signal set: the test of the iteration before found it unset, so it was set
\* inside that iteration (while draining, classifying or sleeping).
StopSetInsideIteration == stop_event /\ scanPc = "top" /\ i >= 1

\* C32: when the signal is set while the scan is inside an iteration, the scan
\* drains no further log, calls the classifier no more and returns
\* (None, None, "Stop") at the head of the loop, after the last iteration
\* (i = max_wait) as after every other.
C32_StopInsideIterationReturnsStop ==
    [][(StopSetInsideIteration /\ scanPc' # "top") =>
           /\ scanRet' = Some(ScanResult(None, None, Reason("Stop")))
           /\ nDrain' = nDrain
           /\ nClassify' = nClassify]_vars

(***************************************************************************)
(* Claims about the value 100 of a download (SpecTask).                    *)
(***************************************************************************)
\* C33: progress_callback is given 100 for a download, and the list shows the item
\* as finished with its active-download entry dropped, only when the engine has
\* delivered the event 'finished' of that download; a percentage of an event
\* 'downloading' is never taken for the finished outcome.
C33_HundredOnlyOnFinishedEvent ==
    \A j \in 1..Len(dl) :
        ~dl[j].finished =>
            /\ \A n \in 1..Len(uiQueue) :
                   uiQueue[n].kind = "progress" => uiQueue[n].val # V_100
            /\ \A n \in 1..Len(data_list) :
                   data_list[n].uid = dl[j].uid => data_list[n].status # Status(ST_Done)

(***************************************************************************)
(* The App with one batch job: the handler that starts a validity check or *)
(* a repair over the target rows, the thread's calls of update_row_status  *)
(* in the order of its loop, the handlers that change the list meanwhile,  *)
(* and the callbacks run by the UI thread.                                 *)
(***************************************************************************)
\* items_to_check / items_to_repair: (idx, self.data_list[idx]) for the target
\* rows, for a repair those with an original_url only.
BatchPairs(kind, targets) ==
    LET picked == Ascending(targets)
        pairs == [k \in 1..Len(picked) |-> <<picked[k], data_list[picked[k]]>>]
    IN  IF kind = "repair"
        THEN SelectSeq(pairs, LAMBDA pr : pr[2].original_url # <<>>)
        ELSE pairs

\* check_validity_selected, or repair_selected confirmed in the dialog: the
\* thread is started with the pairs.
StartBatch ==
    /\ jobs = <<>>
    /\ \E kind \in {"validity", "repair"} : \E targets \in TargetSets \ {{}} :
           /\ BatchPairs(kind, targets) # <<>>
           /\ items' = BatchPairs(kind, targets)
           /\ jobs' = <<Job(kind)>>
           /\ btn_stop' = IF kind = "repair" THEN "normal" ELSE btn_stop
    /\ cur' = 1
    /\ batchPc' = "top"
    /\ stop_event' = FALSE
    /\ UNCHANGED <<scanVars, logged, stopPreAccept, sniffVars, rowCalls, did, fnVars,
                   data_list, nextUid, btn_start, uiQueue, stopSeq, active_downloads,
                   dlEvents, dl, strayCancel>>

\* The head of the thread's loop over its pairs: the stop test, and
\* update_row_status(idx, "checking") or update_row_status(idx, "repairing").
BatchTop ==
    /\ batchPc = "top"
    /\ IF cur > Len(items) \/ stop_event
       THEN /\ batchPc' = "ended"
            /\ UNCHANGED <<cur, uiQueue>>
       ELSE IF jobs[1].kind = "validity" /\ items[cur][2].m3u8 = <<>>
       THEN /\ cur' = cur + 1
            /\ UNCHANGED <<batchPc, uiQueue>>
       ELSE /\ Len(uiQueue) < MaxQueue
            /\ uiQueue' = Append(uiQueue,
                   RowCallback(items[cur][1],
                               Status(IF jobs[1].kind = "validity"
                                      THEN ST_Checking ELSE ST_Repairing), None, None))
            /\ batchPc' = "work"
            /\ UNCHANGED cur
    /\ UNCHANGED <<stop_event, scanVars, logged, stopPreAccept, sniffVars, items, rowCalls,
                   did, fnVars, data_list, nextUid, btn_start, btn_stop, jobs, stopSeq,
                   active_downloads, dlEvents, dl, strayCancel>>

\* The outcomes of one repair: the accepted URL with its captured headers, a scan
\* that returned nothing (timeout or stop), an exception of the navigation.
RepairOutcomes(idx) ==
    {RowCallback(idx, Status(ST_Repaired), Some(U_alt), Some(H_withReferer)),
     RowCallback(idx, Status(ST_Failed), None, None),
     RowCallback(idx, Status(ST_RepairError), None, None)}

\* The outcomes of one validity check.
ValidityOutcomes(idx) ==
    {RowCallback(idx, Status(text), None, None) : text \in {ST_Valid, ST_Invalid, ST_ConnFailed}}

\* The rest of the loop body: the final update_row_status of the item, or for a
\* repair the signal found set while settling, which ends the batch.
BatchWork ==
    /\ batchPc = "work"
    /\ \/ /\ jobs[1].kind = "repair"
          /\ stop_event
          /\ batchPc' = "ended"
          /\ UNCHANGED <<cur, uiQueue>>
       \/ /\ Len(uiQueue) < MaxQueue
          /\ \E c \in (IF jobs[1].kind = "validity" THEN ValidityOutcomes(items[cur][1])
                       ELSE RepairOutcomes(items[cur][1])) :
                 uiQueue' = Append(uiQueue, c)
          /\ cur' = cur + 1
          /\ batchPc' = "top"
    /\ UNCHANGED <<stop_event, scanVars, logged, stopPreAccept, sniffVars, items, rowCalls,
                   did, fnVars, data_list, nextUid, btn_start, btn_stop, jobs, stopSeq,
                   active_downloads, dlEvents, dl, strayCancel>>

InitRows ==
    /\ stop_event = FALSE
    /\ NoCall
    /\ NoScan
    /\ NoSniffJob
    /\ NoBatch
    /\ NoApp

NextRows ==
    \/ ImportJson \/ DeleteSelected \/ StartBatch \/ BatchTop \/ BatchWork \/ StopSniff
    \/ RunRowUpdate

SpecRows == InitRows /\ [][NextRows]_vars

(***************************************************************************)
(* Claims about the row updates of a batch job (SpecRows).                 *)
(***************************************************************************)
\* The UI thread runs the row update at the head of its queue, and the update is
\* one of the batch job.
BatchRowUpdateRuns ==
    /\ uiQueue # <<>>
    /\ Head(uiQueue).kind = "row"
    /\ uiQueue' = Tail(uiQueue)

\* The item that was at row idx when the batch was started.
StartedWith(idx) == {items[k][2].uid : k \in {n \in 1..Len(items) : items[n][1] = idx}}

\* C34: a row update of a batch job for index idx is applied only to the item
\* that was at idx when the batch was started: whatever is deleted or imported
\* meanwhile, no other item has its status, manifest URL or headers written.
C34_RowUpdateReachesItsOwnItem ==
    [][BatchRowUpdateRuns =>
           \A n \in 1..Len(data_list) :
               data_list'[n] # data_list[n] =>
                   data_list[n].uid \in StartedWith(Head(uiQueue).idx)]_vars

(***************************************************************************)
(* Claims about the events of a download (SpecDownloads).                  *)
(***************************************************************************)
\* The UI thread runs the progress callback at the head of its queue.
ProgressEventRuns ==
    /\ uiQueue # <<>>
    /\ Head(uiQueue).kind = "progress"
    /\ uiQueue' = Tail(uiQueue)

\* The statuses update_progress shows.
DownloadTexts == {ST_Done, ST_Stopped, ST_Error, ST_Percent}

\* C35: every percentage, 100 and sentinel of a download is applied to the list
\* item the download was started for, also when another item has the same title
\* and when the title was edited meanwhile: the event changes no other item, and
\* the item, while it is in the list, shows the event.
C35_ProgressReachesItsOwnItem ==
    [][ProgressEventRuns =>
           \A j \in 1..Len(dl) :
               dl[j].title = Head(uiQueue).title =>
                   /\ \A n \in 1..Len(data_list) :
                          data_list'[n] # data_list[n] => data_list[n].uid = dl[j].uid
                   /\ \A n \in 1..Len(data_list) :
                          data_list[n].uid = dl[j].uid =>
                              data_list'[n].status.text \in DownloadTexts]_vars

(***************************************************************************)
(* Claims about the controls after a sniff job (SpecJobs).                 *)
(***************************************************************************)
\* No sniff thread is running and no result of one waits for the UI thread: what
\* a sniff job does to the controls has been done.
SniffJobsSettled ==
    /\ \A j \in 1..Len(jobs) : jobs[j].kind = "sniff" => jobs[j].st # "running"
    /\ \A n \in 1..Len(uiQueue) : uiQueue[n].kind # "sniff"

\* C36: after a sniff job has terminated, for whatever reason, its result handler
\* runs and the controls are idle again, the start control enabled and the stop
\* control (which only a repair enables besides) disabled, so that a new sniff
\* can be started.
C36_ControlsIdleAfterSniff ==
    SniffJobsSettled =>
        /\ btn_start = "normal"
        /\ (\A j \in 1..Len(jobs) : jobs[j].kind # "repair") => btn_stop = "disabled"

(***************************************************************************)
(* The App with a list of items, one batch job and a download: the threads'*)
(* row updates and progress events and the callbacks that apply them.      *)
(***************************************************************************)
InitFields ==
    /\ stop_event = FALSE
    /\ NoCall
    /\ NoScan
    /\ NoSniffJob
    /\ NoBatch
    /\ \E n \in 1..MaxItems : \E file \in [1..n -> ImportableItems] :
           /\ data_list = [k \in 1..n |-> ListItem(k, file[k])]
           /\ nextUid = n + 1
    /\ btn_start = "normal"
    /\ btn_stop = "disabled"
    /\ uiQueue = <<>>
    /\ jobs = <<>>
    /\ stopSeq = 0
    /\ active_downloads = <<>>
    /\ dlEvents = <<>>
    /\ dl = <<>>
    /\ strayCancel = FALSE

NextFields ==
    \/ StartBatch \/ BatchTop \/ BatchWork \/ StopSniff
    \/ DownloadSelected \/ DlHook \/ DlEngineFails \/ DlReturns
    \/ RunRowUpdate \/ RunUpdateProgress

SpecFields == InitFields /\ [][NextFields]_vars

(***************************************************************************)
(* Claims about the fields of the items (SpecFields).                      *)
(***************************************************************************)
\* Everything of an item but its status.
FieldsOf(d) == <<d.uid, d.title, d.m3u8, d.original_url, d.headers, d.checked>>

\* The callback at the head of the queue is the success update of a repair.
RepairSuccessRuns ==
    /\ uiQueue # <<>>
    /\ Head(uiQueue).kind = "row"
    /\ Head(uiQueue).status = Status(ST_Repaired)
    /\ uiQueue' = Tail(uiQueue)

\* One step changes of the items nothing but statuses, and of one item its
\* manifest URL and headers when it is the success update of a repair.
OnlyRepairSuccessWritesFields ==
    /\ Len(data_list') = Len(data_list)
    /\ \A n \in 1..Len(data_list) :
           /\ <<data_list'[n].uid, data_list'[n].title, data_list'[n].original_url,
                data_list'[n].checked>>
                  = <<data_list[n].uid, data_list[n].title, data_list[n].original_url,
                      data_list[n].checked>>
           /\ FieldsOf(data_list'[n]) # FieldsOf(data_list[n]) =>
                  /\ RepairSuccessRuns
                  /\ n = Head(uiQueue).idx
                  /\ data_list'[n].m3u8 = Head(uiQueue).new_url[1]
                  /\ data_list'[n].headers = Head(uiQueue).new_headers[1]

\* C37: the manifest URL and the headers of an item change only through the
\* success row update of a repair; validity checks, failed, errored and cancelled
\* repairs and the progress events of downloads change of every item nothing but
\* its status: manifest URL, headers, title, original URL and checked stay.
C37_OnlyRepairSuccessChangesUrlAndHeaders ==
    [][OnlyRepairSuccessWritesFields]_vars

C37_Witness ==
    /\ \E n \in 1..Len(data_list) :
           /\ data_list[n].m3u8 = U_alt
           /\ data_list[n].headers = H_withReferer
           /\ data_list[n].status.text \in DownloadTexts
    /\ \E n \in 1..Len(data_list) : data_list[n].status.text \in {ST_Valid, ST_Invalid, ST_Failed}

====
